---- MODULE Spec2Model ----
(***************************************************************************)
(* Model of dutopia's parallel filesystem scanner (duscan): the seeding    *)
(* of the task queue, the worker loop with enum_dir, the shutdown watcher, *)
(* the join of the workers and the merge of the shards.                    *)
(*                                                                         *)
(* Granularity.  Every access to shared state (the channel, the in-flight  *)
(* counter, the progress counter) is a step of its own or the last effect  *)
(* of a step whose other effects are local to the thread, so that every    *)
(* interleaving of the shared accesses is explored.  The in-flight counter *)
(* is an atomic cell: its read-modify-write operations act on the latest   *)
(* value, and the watcher's load reads the current value.                  *)
(***************************************************************************)
EXTENDS Integers, Sequences, FiniteSets, Bags, TLC

(***************************************************************************)
(* Bounds of the model.                                                    *)
(***************************************************************************)
\* worker counts 1..MaxWorkers are explored
MaxWorkers == 2
\* the big directories hold FILE_CHUNK and FILE_CHUNK + ExtraFiles files
ExtraFiles == 1
\* number of environment failures (shard creation, encoder creation,
\* write_all, flush) that may strike in one run
MaxFaults == 1

(***************************************************************************)
(* Program constants.                                                      *)
(***************************************************************************)
FILE_CHUNK == 2048
FLUSH_BYTES == 4 * 1024 * 1024
\* the watcher's "consecutive_zeros >= 5"
ZeroSamples == 5

(***************************************************************************)
(* Paths are strings; an Option<T> is a sequence of length at most one.    *)
(***************************************************************************)
None == <<>>
Some(x) == <<x>>

\* Path::join for a relative name and a base without trailing separator
join(base, name) == base \o "/" \o name

\* str::contains
contains(s, sub) ==
    \E i \in 0..(Len(s) - Len(sub)) : SubSeq(s, i + 1, i + Len(sub)) = sub

should_skip_never(path, skip) == FALSE

should_skip(path, skip) ==
    IF skip = None THEN FALSE ELSE contains(path, skip[1])

(***************************************************************************)
(* The file systems that are scanned.  A directory is [stat_ok, rd_ok,     *)
(* blocks, entries]; a path that is no key of the map does not exist (both *)
(* symlink_metadata and read_dir fail on it).  An entry of a directory is  *)
(* [name, kind, blocks] with kind one of                                   *)
(*   "dir", "file", "symlink"   a readable entry of that file type         *)
(*   "bad_dent"                 the iterator yields Err for the entry      *)
(*   "bad_ft"                   DirEntry::file_type fails                  *)
(*   "bad_md"                   a non-symlink whose DirEntry::metadata fails *)
(*   "bad_link"                 a symlink whose symlink_metadata fails     *)
(***************************************************************************)
E(name, kind, blocks) == [name |-> name, kind |-> kind, blocks |-> blocks]
D(stat_ok, rd_ok, blocks, entries) ==
    [stat_ok |-> stat_ok, rd_ok |-> rd_ok, blocks |-> blocks, entries |-> entries]

\* /r with a subdirectory, a file and a symlink; /r/a/e is empty
FsTree ==
    ("/r" :> D(TRUE, TRUE, 8, <<E("a", "dir", 0), E("f", "file", 8),
                                E("l", "symlink", 0)>>))
    @@ ("/r/a" :> D(TRUE, TRUE, 8, <<E("g", "file", 16), E("e", "dir", 0)>>))
    @@ ("/r/a/e" :> D(TRUE, TRUE, 8, <<>>))

\* directories whose path contains "s"
FsSkip ==
    ("/r" :> D(TRUE, TRUE, 8, <<E("s", "dir", 0), E("f", "file", 8)>>))
    @@ ("/r/s" :> D(TRUE, TRUE, 8, <<E("x", "file", 8)>>))
    @@ ("/s" :> D(TRUE, TRUE, 8, <<E("y", "file", 8)>>))

\* entries and directories that cannot be read: /r/v has vanished, /r/u is
\* unreadable
FsErr ==
    ("/r" :> D(TRUE, TRUE, 8, <<E("d", "bad_dent", 0), E("t", "bad_ft", 0),
                                E("m", "bad_md", 0), E("k", "bad_link", 0),
                                E("v", "dir", 0), E("u", "dir", 0),
                                E("f", "file", 8)>>))
    @@ ("/r/u" :> D(TRUE, FALSE, 8, <<E("h", "file", 8)>>))

\* one directory with n files and no subdirectory
FsBig(n) ==
    ("/r" :> D(TRUE, TRUE, 8, [i \in 1..n |-> E("f" \o ToString(i), "file", 8)]))

\* A run of duscan: the canonicalized root folders, --skip, --bin, the file
\* system and the encoded length of one row in bytes (long paths give long
\* rows).
Scenarios == <<
    [roots |-> <<"/r">>, skip |-> None, bin |-> FALSE, fs |-> FsTree,
     row_bytes |-> 64],
    [roots |-> <<"/r", "/s">>, skip |-> Some("s"), bin |-> TRUE, fs |-> FsSkip,
     row_bytes |-> 64],
    [roots |-> <<"/r">>, skip |-> None, bin |-> FALSE, fs |-> FsErr,
     row_bytes |-> 64],
    [roots |-> <<"/r">>, skip |-> None, bin |-> TRUE,
     fs |-> FsBig(FILE_CHUNK + ExtraFiles), row_bytes |-> 4096],
    [roots |-> <<"/r/a", "/r/a">>, skip |-> None, bin |-> FALSE, fs |-> FsTree,
     row_bytes |-> 64],
    [roots |-> <<"/r">>, skip |-> None, bin |-> FALSE, fs |-> FsBig(FILE_CHUNK),
     row_bytes |-> 64]
>>

Tids == 0..(MaxWorkers - 1)

VARIABLES
    scen,               \* which scan is run (index into Scenarios)
    workers,            \* args.workers
    faults,             \* environment failures still to strike
    queue,              \* the unbounded MPMC channel, oldest first
    inflight,           \* the in-flight counter
    progress,           \* Progress.files
    mpc, mi,            \* main thread: position, loop index
    total,              \* main's Stats total
    merged,             \* result of merge_shards: [status, out]
    wpc,                \* watcher thread: position
    consecutive_zeros,  \* watcher's counter
    sent,               \* Shutdown tasks the watcher has sent
    zero_run,           \* history: how many of the latest samples in a row read 0
    pc,                 \* worker: position
    cur,                \* worker: the task taken from the channel
    idx,                \* worker: position of the loop over entries / items
    page,               \* enum_dir: page
    pending,            \* enum_dir: task counted in-flight and not yet sent
    error_count,        \* worker: error_count of the Dir arm
    ed_errors,          \* enum_dir: error_count
    stats,              \* worker: Stats
    task_errors0,       \* history: stats.errors when the current task was taken
    started,            \* history: how the worker's start ended ("" before it)
    shutdowns,          \* history: Shutdown tasks the worker has taken
    chunks,             \* history: sizes of the Files tasks of this enum_dir call
    buf,                \* worker: buf (rows not yet written)
    shard,              \* shard file of each tid: [exists, rows]
    op,                 \* the program or function that is run ("scan": duscan)
    arg,                \* the input of a program or function run on its own
    res                 \* its result (<<>> before it has run)

purevars == <<op, arg, res>>
cfgvars == <<scen, workers, purevars>>
mainvars == <<mpc, mi, total, merged>>
watchvars == <<wpc, consecutive_zeros, sent, zero_run>>
ghosts == <<started, shutdowns, chunks>>
wlocals == <<cur, idx, page, pending, error_count, ed_errors, stats, task_errors0, buf,
             ghosts>>
vars == <<cfgvars, faults, queue, inflight, progress, mainvars, watchvars, pc,
          wlocals, shard>>

Sc == Scenarios[scen]
Fs == Sc.fs
skip == Sc.skip
roots == Sc.roots

DirTask(p) == [type |-> "Dir", path |-> p, items |-> <<>>]
FilesTask(base, items) == [type |-> "Files", path |-> base, items |-> items]
ShutdownTask == [type |-> "Shutdown", path |-> "", items |-> <<>>]
NoTask == [type |-> "None", path |-> "", items |-> <<>>]

StatsDefault == [files |-> 0, errors |-> 0, bytes |-> 0]
NoFile == [exists |-> FALSE, rows |-> <<>>]
NotMerged == [status |-> "none", out |-> <<>>]

Init ==
    /\ op = "scan" /\ arg = <<>> /\ res = <<>>
    /\ scen \in 1..Len(Scenarios)
    /\ workers \in 1..MaxWorkers
    /\ faults = MaxFaults
    /\ queue = <<>>
    /\ inflight = 0
    /\ progress = 0
    /\ mpc = "seed_count"
    /\ mi = 1
    /\ total = StatsDefault
    /\ merged = NotMerged
    /\ wpc = "unspawned"
    /\ consecutive_zeros = 0
    /\ sent = 0
    /\ zero_run = 0
    /\ pc = [t \in Tids |-> "unspawned"]
    /\ cur = [t \in Tids |-> NoTask]
    /\ idx = [t \in Tids |-> 0]
    /\ page = [t \in Tids |-> <<>>]
    /\ pending = [t \in Tids |-> NoTask]
    /\ error_count = [t \in Tids |-> 0]
    /\ ed_errors = [t \in Tids |-> 0]
    /\ stats = [t \in Tids |-> StatsDefault]
    /\ task_errors0 = [t \in Tids |-> 0]
    /\ started = [t \in Tids |-> ""]
    /\ shutdowns = [t \in Tids |-> 0]
    /\ chunks = [t \in Tids |-> <<>>]
    /\ buf = [t \in Tids |-> <<>>]
    /\ shard = [t \in Tids |-> NoFile]

(***************************************************************************)
(* The read-modify-write operations on the in-flight counter, by site.     *)
(* The counter is kept as an integer, so that a decrement at zero (where   *)
(* the AtomicUsize wraps around) shows as a negative value.                *)
(***************************************************************************)
\* main: inflight.fetch_add(1) before the root is sent
seed_fetch_add_forgotten(c) == c

seed_fetch_add(c) == c + 1

\* enum_dir: inflight.fetch_add(1) before a Task::Dir or Task::Files is sent
enum_fetch_add_forgotten(c) == c

enum_fetch_add(c) == c + 1

\* worker: inflight.fetch_sub(1) of a task whose path matches --skip
skip_fetch_sub_forgotten(c) == c

skip_fetch_sub(c) == c - 1

\* worker: inflight.fetch_sub(1) at the end of the Dir and the Files arm
task_fetch_sub_forgotten(c) == c

task_fetch_sub(c) == c - 1

(***************************************************************************)
(* main: seed all roots, spawn the watcher, spawn the workers.             *)
(***************************************************************************)
\* inflight.fetch_add(1) for the root
SeedCount ==
    /\ mpc = "seed_count"
    /\ inflight' = seed_fetch_add(inflight)
    /\ mpc' = "seed_send"
    /\ UNCHANGED <<cfgvars, faults, queue, progress, mi, total, merged, watchvars,
                   pc, wlocals, shard>>

\* tx.send(Task::Dir(root)); after the last root the loop ends
SeedSend ==
    /\ mpc = "seed_send"
    /\ queue' = Append(queue, DirTask(roots[mi]))
    /\ IF mi < Len(roots)
         THEN mi' = mi + 1 /\ mpc' = "seed_count"
         ELSE mi' = 0 /\ mpc' = "spawn_watcher"
    /\ UNCHANGED <<cfgvars, faults, inflight, progress, total, merged, watchvars,
                   pc, wlocals, shard>>

SpawnWatcher ==
    /\ mpc = "spawn_watcher"
    /\ wpc' = "poll"
    /\ mpc' = "spawn_workers"
    /\ UNCHANGED <<cfgvars, faults, queue, inflight, progress, mi, total, merged,
                   consecutive_zeros, sent, zero_run, pc, wlocals, shard>>

\* thread::spawn of worker mi; after the last one main starts to join
SpawnWorker ==
    /\ mpc = "spawn_workers"
    /\ pc' = [pc EXCEPT ![mi] = "start"]
    /\ IF mi + 1 < workers
         THEN mi' = mi + 1 /\ mpc' = mpc
         ELSE mi' = 0 /\ mpc' = "join"
    /\ UNCHANGED <<cfgvars, faults, queue, inflight, progress, total, merged,
                   watchvars, wlocals, shard>>

(***************************************************************************)
(* The worker: shard and encoder creation.                                 *)
(***************************************************************************)
out_fmt == IF Sc.bin THEN "Bin" ELSE "Csv"
is_bin == out_fmt = "Bin"

StartOutcomes ==
    {"ok"} \cup (IF faults > 0 THEN {"no_shard"} ELSE {})
           \cup (IF faults > 0 /\ is_bin THEN {"no_encoder"} ELSE {})

\* File::create(&shard_path), ZstdEncoder::new; a failure returns Stats with
\* one error before the loop is entered
WorkerStart(t) ==
    /\ pc[t] = "start"
    /\ \E o \in StartOutcomes :
        /\ shard' = [shard EXCEPT ![t] =
                        IF o = "no_shard" THEN @ ELSE [exists |-> TRUE, rows |-> <<>>]]
        /\ stats' = [stats EXCEPT ![t] =
                        IF o = "ok" THEN StatsDefault
                        ELSE [StatsDefault EXCEPT !.errors = 1]]
        /\ pc' = [pc EXCEPT ![t] = IF o = "ok" THEN "recv" ELSE "done"]
        /\ faults' = IF o = "ok" THEN faults ELSE faults - 1
        /\ started' = [started EXCEPT ![t] = o]
    /\ buf' = [buf EXCEPT ![t] = <<>>]
    /\ UNCHANGED <<cfgvars, queue, inflight, progress, mainvars, watchvars, cur, idx,
                   page, pending, error_count, ed_errors, task_errors0, shutdowns, chunks>>

(***************************************************************************)
(* The worker loop.                                                        *)
(***************************************************************************)
\* rx.recv(): blocks while the channel is empty
Recv(t) ==
    /\ pc[t] = "recv"
    /\ queue # <<>>
    /\ cur' = [cur EXCEPT ![t] = Head(queue)]
    /\ queue' = Tail(queue)
    /\ idx' = [idx EXCEPT ![t] = 1]
    /\ task_errors0' = [task_errors0 EXCEPT ![t] = stats[t].errors]
    /\ shutdowns' = [shutdowns EXCEPT ![t] =
                       IF Head(queue).type = "Shutdown" THEN @ + 1 ELSE @]
    /\ pc' = [pc EXCEPT ![t] = "task"]
    /\ UNCHANGED <<cfgvars, faults, inflight, progress, mainvars, watchvars, page,
                   pending, error_count, ed_errors, stats, buf, shard,
                   started, chunks>>

\* write_row_csv / write_row_bin: the encoded row, of which the model keeps
\* the DISK (blocks * 512) and PATH fields
Row(path, blocks) == ToString(blocks * 512) \o "," \o path

\* stat_row: symlink_metadata(path).ok()
stat_row(path) ==
    IF path \in DOMAIN Fs /\ Fs[path].stat_ok
      THEN Some(Row(path, Fs[path].blocks))
      ELSE None

\* fs::read_dir: Ok(entries) or Err
read_dir(path) ==
    IF path \in DOMAIN Fs /\ Fs[path].rd_ok THEN Some(Fs[path].entries) ELSE None

\* buf.len() in bytes
buf_len(b) == Len(b) * Sc.row_bytes

\* "if buf.len() >= FLUSH_BYTES { writer.write_all(&buf) ...; buf.clear() }":
\* the possible results [buf, rows, errors, faults] for buffer b and the rows
\* rs the writer holds.  A failed write_all loses the buffered rows.
flush_if_full_dropping(b, rs, f) ==
    IF buf_len(b) >= FLUSH_BYTES
      THEN {[buf |-> <<>>, rows |-> rs, errors |-> 0, faults |-> f]}
      ELSE {[buf |-> b, rows |-> rs, errors |-> 0, faults |-> f]}

\* the buffer kept after a failed write_all
flush_if_full_keeping(b, rs, f) ==
    IF buf_len(b) >= FLUSH_BYTES
      THEN {[buf |-> <<>>, rows |-> rs \o b, errors |-> 0, faults |-> f]}
           \cup (IF f > 0
                   THEN {[buf |-> b, rows |-> rs, errors |-> 1, faults |-> f - 1]}
                   ELSE {})
      ELSE {[buf |-> b, rows |-> rs, errors |-> 0, faults |-> f]}

\* the buffer written in front of what the writer holds
flush_if_full_prepending(b, rs, f) ==
    IF buf_len(b) >= FLUSH_BYTES
      THEN {[buf |-> <<>>, rows |-> b \o rs, errors |-> 0, faults |-> f]}
      ELSE {[buf |-> b, rows |-> rs, errors |-> 0, faults |-> f]}

flush_if_full(b, rs, f) ==
    IF buf_len(b) >= FLUSH_BYTES
      THEN {[buf |-> <<>>, rows |-> rs \o b, errors |-> 0, faults |-> f]}
           \cup (IF f > 0
                   THEN {[buf |-> <<>>, rows |-> rs, errors |-> 1, faults |-> f - 1]}
                   ELSE {})
      ELSE {[buf |-> b, rows |-> rs, errors |-> 0, faults |-> f]}

\* Task::Dir whose path matches --skip: only the in-flight decrement
DirSkip(t) ==
    /\ pc[t] = "task"
    /\ cur[t].type = "Dir"
    /\ should_skip(cur[t].path, skip)
    /\ error_count' = [error_count EXCEPT ![t] = 0]
    /\ inflight' = skip_fetch_sub(inflight)
    /\ pc' = [pc EXCEPT ![t] = "recv"]
    /\ cur' = [cur EXCEPT ![t] = NoTask]
    /\ UNCHANGED <<cfgvars, faults, queue, progress, mainvars, watchvars, idx, page,
                   pending, ed_errors, stats, task_errors0, ghosts, buf, shard>>

\* Task::Dir: stat the directory, write its row, flush when the buffer is
\* full, then enter enum_dir (read_dir)
DirBegin(t) ==
    /\ pc[t] = "task"
    /\ cur[t].type = "Dir"
    /\ ~should_skip(cur[t].path, skip)
    /\ LET dir == cur[t].path
           row == stat_row(dir)
           b1 == IF row # None THEN Append(buf[t], row[1]) ELSE buf[t]
           rd == read_dir(dir)
       IN \E r \in flush_if_full(b1, shard[t].rows, faults) :
            /\ buf' = [buf EXCEPT ![t] = r.buf]
            /\ shard' = [shard EXCEPT ![t].rows = r.rows]
            /\ faults' = r.faults
            /\ stats' = [stats EXCEPT
                           ![t].files = IF row # None THEN @ + 1 ELSE @,
                           ![t].errors = (IF row # None THEN @ ELSE @ + 1) + r.errors]
            /\ error_count' = [error_count EXCEPT ![t] = IF row # None THEN 0 ELSE 1]
            /\ ed_errors' = [ed_errors EXCEPT ![t] = IF rd = None THEN 1 ELSE 0]
            /\ page' = [page EXCEPT ![t] = <<>>]
            /\ idx' = [idx EXCEPT ![t] = 1]
            /\ chunks' = [chunks EXCEPT ![t] = <<>>]
            /\ pc' = [pc EXCEPT ![t] = IF rd = None THEN "dir_end" ELSE "enum"]
    /\ UNCHANGED <<cfgvars, queue, inflight, progress, mainvars, watchvars, cur,
                   pending, task_errors0, started, shutdowns>>

Item(e) == [name |-> e.name, blocks |-> e.blocks]

Min(a, b) == IF a <= b THEN a ELSE b
Max(a, b) == IF a >= b THEN a ELSE b

\* What one iteration of "for dent in rd" does with entry e of dir:
\*   "error"   error_count += 1; continue
\*   "ignore"  continue ("." and "..", a subdirectory matching --skip)
\*   "dir"     fetch_add; send Task::Dir
\*   "file"    page.push; at FILE_CHUNK items fetch_add and send Task::Files
entry_class(dir, e) ==
    IF e.kind = "bad_dent" THEN "error"
    ELSE IF e.name \in {".", ".."} THEN "ignore"
    ELSE IF e.kind = "bad_ft" THEN "error"
    ELSE IF e.kind = "dir"
      THEN (IF should_skip(join(dir, e.name), skip) THEN "ignore" ELSE "dir")
    ELSE IF e.kind \in {"bad_md", "bad_link"} THEN "error"
    ELSE "file"

\* number of items page can still take before "page.len() == FILE_CHUNK"
page_room_late(len) == FILE_CHUNK + 1 - len

page_room(len) == FILE_CHUNK - len

\* "if !page.is_empty()" after the loop
send_last_page(pg) == pg # <<>>

\* The iterations of "for dent in rd" from entry idx on, up to and including
\* the next fetch_add (a subdirectory, a full page, or the last page after
\* the loop); without one, up to the return of enum_dir.  The iterations in
\* between touch only locals of the thread.
EnumRun(t) ==
    /\ pc[t] = "enum"
    /\ \E dir \in {cur[t].path} : \E ents \in {Fs[cur[t].path].entries} :
       \E n \in {Len(Fs[cur[t].path].entries)} : \E i0 \in {idx[t]} :
       \E cl \in {[i \in 1..n |-> IF i < i0 THEN "done" ELSE entry_class(dir, ents[i])]} :
       \E fileIdx \in {SelectSeq([i \in 1..n |-> i], LAMBDA i : cl[i] = "file")} :
       \E dirIdx \in {SelectSeq([i \in 1..n |-> i], LAMBDA i : cl[i] = "dir")} :
       \E room \in {page_room(Len(page[t]))} :
       \E stop \in {Min(IF Len(fileIdx) >= room THEN fileIdx[room] ELSE n + 1,
                        IF dirIdx # <<>> THEN dirIdx[1] ELSE n + 1)} :
       \E took \in {SelectSeq(fileIdx, LAMBDA i : i <= stop)} :
       \E pg \in {page[t] \o [k \in 1..Len(took) |-> Item(ents[took[k]])]} :
       \E errs \in {Cardinality({i \in i0..Min(stop, n) : cl[i] = "error"})} :
          /\ ed_errors' = [ed_errors EXCEPT ![t] = @ + errs]
          /\ IF stop <= n
               THEN /\ idx' = [idx EXCEPT ![t] = stop + 1]
                    /\ inflight' = enum_fetch_add(inflight)
                    /\ pc' = [pc EXCEPT ![t] = "send"]
                    /\ IF cl[stop] = "dir"
                         THEN /\ pending' = [pending EXCEPT ![t] =
                                               DirTask(join(dir, ents[stop].name))]
                              /\ page' = [page EXCEPT ![t] = pg]
                         ELSE /\ pending' = [pending EXCEPT ![t] = FilesTask(dir, pg)]
                              /\ page' = [page EXCEPT ![t] = <<>>]
               ELSE /\ idx' = [idx EXCEPT ![t] = n + 1]
                    /\ IF send_last_page(pg)
                         THEN /\ inflight' = enum_fetch_add(inflight)
                              /\ pending' = [pending EXCEPT ![t] = FilesTask(dir, pg)]
                              /\ page' = [page EXCEPT ![t] = <<>>]
                              /\ pc' = [pc EXCEPT ![t] = "send_last"]
                         ELSE /\ pc' = [pc EXCEPT ![t] = "dir_end"]
                              /\ page' = [page EXCEPT ![t] = pg]
                              /\ UNCHANGED <<inflight, pending>>
    /\ UNCHANGED <<cfgvars, faults, queue, progress, mainvars, watchvars, cur,
                   error_count, stats, task_errors0, ghosts, buf, shard>>

\* tx.send(task) of the task just counted
EnumSend(t) ==
    /\ pc[t] \in {"send", "send_last"}
    /\ queue' = Append(queue, pending[t])
    /\ pending' = [pending EXCEPT ![t] = NoTask]
    /\ pc' = [pc EXCEPT ![t] = IF pc[t] = "send" THEN "enum" ELSE "dir_end"]
    /\ chunks' = [chunks EXCEPT ![t] =
                    IF pending[t].type = "Files" THEN Append(@, Len(pending[t].items))
                    ELSE @]
    /\ UNCHANGED <<cfgvars, faults, inflight, progress, mainvars, watchvars, cur, idx,
                   page, error_count, ed_errors, stats, task_errors0, started,
                   shutdowns, buf, shard>>

\* error_count += enum_dir(..); stats.errors += error_count;
\* inflight.fetch_sub(1); progress.files.fetch_add(1)
DirEnd(t) ==
    /\ pc[t] = "dir_end"
    /\ error_count' = [error_count EXCEPT ![t] = @ + ed_errors[t]]
    /\ stats' = [stats EXCEPT ![t].errors = @ + error_count[t] + ed_errors[t]]
    /\ inflight' = task_fetch_sub(inflight)
    /\ progress' = progress + 1
    /\ pc' = [pc EXCEPT ![t] = "recv"]
    /\ cur' = [cur EXCEPT ![t] = NoTask]
    /\ UNCHANGED <<cfgvars, faults, queue, mainvars, watchvars, idx, page, pending,
                   ed_errors, task_errors0, ghosts, buf, shard>>

\* sum of items[i].blocks for i in lo..hi (as the size of the bag that
\* holds i blocks + 1 times, less one per item)
SumBlocks(items, lo, hi) ==
    IF lo > hi THEN 0
    ELSE BagCardinality([i \in lo..hi |-> items[i].blocks + 1]) - (hi - lo + 1)

\* The iterations of "for FileItem { name, md } in &items" from item idx on,
\* up to and including the next one whose row fills the buffer, or to the
\* end of the items.  They touch only locals of the thread and its shard.
FilesRun(t) ==
    /\ pc[t] = "task"
    /\ cur[t].type = "Files"
    /\ ~should_skip(cur[t].path, skip)
    /\ idx[t] <= Len(cur[t].items)
    /\ \E items \in {cur[t].items} : \E i0 \in {idx[t]} :
       \E take \in {Min(Len(cur[t].items) - idx[t] + 1,
                        Max(1, (FLUSH_BYTES + Sc.row_bytes - 1) \div Sc.row_bytes
                               - Len(buf[t])))} :
       \E rows \in {[k \in 1..take |->
                       Row(join(cur[t].path, items[i0 + k - 1].name),
                           items[i0 + k - 1].blocks)]} :
          /\ \E r \in flush_if_full(buf[t] \o rows, shard[t].rows, faults) :
               /\ buf' = [buf EXCEPT ![t] = r.buf]
               /\ shard' = [shard EXCEPT ![t].rows = r.rows]
               /\ faults' = r.faults
               /\ stats' = [stats EXCEPT
                              ![t].files = @ + take,
                              ![t].bytes = @ + 512 * SumBlocks(items, i0, i0 + take - 1),
                              ![t].errors = @ + r.errors]
          /\ idx' = [idx EXCEPT ![t] = @ + take]
    /\ UNCHANGED <<cfgvars, queue, inflight, progress, mainvars, watchvars, pc, cur,
                   page, pending, error_count, ed_errors, task_errors0, ghosts>>

\* the end of the Files arm: on a base matching --skip only
\* inflight.fetch_sub(1); else, after the items, inflight.fetch_sub(1) and
\* progress.files.fetch_add(files)
FilesEnd(t) ==
    /\ pc[t] = "task"
    /\ cur[t].type = "Files"
    /\ should_skip(cur[t].path, skip) \/ idx[t] > Len(cur[t].items)
    /\ inflight' = IF should_skip(cur[t].path, skip)
                     THEN skip_fetch_sub(inflight)
                     ELSE task_fetch_sub(inflight)
    /\ progress' = IF should_skip(cur[t].path, skip)
                     THEN progress
                     ELSE progress + Len(cur[t].items)
    /\ pc' = [pc EXCEPT ![t] = "recv"]
    /\ cur' = [cur EXCEPT ![t] = NoTask]
    /\ UNCHANGED <<cfgvars, faults, queue, mainvars, watchvars, idx, page, pending,
                   error_count, ed_errors, stats, task_errors0, ghosts, buf, shard>>

\* after the loop: the final write_all of a non-empty buffer and the flush.
\* A failed flush may or may not have let the rows reach the file.
FinalOutcomes(b, rs, f) ==
    LET w == IF b = <<>>
               THEN {[rows |-> rs, errors |-> 0, faults |-> f]}
               ELSE {[rows |-> rs \o b, errors |-> 0, faults |-> f]}
                    \cup (IF f > 0
                            THEN {[rows |-> rs, errors |-> 1, faults |-> f - 1]}
                            ELSE {})
    IN UNION {
         {x} \cup (IF x.faults > 0
                     THEN {[rows |-> rr, errors |-> x.errors + 1,
                            faults |-> x.faults - 1] : rr \in {x.rows, <<>>}}
                     ELSE {})
         : x \in w }

\* Task::Shutdown => break, then the final write and flush; return stats
WorkerFinal(t) ==
    /\ pc[t] = "task"
    /\ cur[t].type = "Shutdown"
    /\ \E r \in FinalOutcomes(buf[t], shard[t].rows, faults) :
         /\ shard' = [shard EXCEPT ![t].rows = r.rows]
         /\ stats' = [stats EXCEPT ![t].errors = @ + r.errors]
         /\ faults' = r.faults
    /\ buf' = [buf EXCEPT ![t] = <<>>]
    /\ pc' = [pc EXCEPT ![t] = "done"]
    /\ cur' = [cur EXCEPT ![t] = NoTask]
    /\ UNCHANGED <<cfgvars, queue, inflight, progress, mainvars, watchvars, idx,
                   page, pending, error_count, ed_errors, task_errors0, ghosts>>

(***************************************************************************)
(* The shutdown watcher.  The process ends when main returns, which ends   *)
(* the watcher thread wherever it is.                                      *)
(***************************************************************************)
\* "if consecutive_zeros >= 5"
enough_zeros_once(n) == n >= 1

enough_zeros(n) == n >= ZeroSamples

\* one round of the loop: load the counter, count or reset, decide
WatcherSample ==
    /\ wpc = "poll"
    /\ mpc # "done"
    /\ zero_run' = IF inflight = 0 THEN zero_run + 1 ELSE 0
    /\ IF inflight = 0
         THEN /\ consecutive_zeros' = consecutive_zeros + 1
              /\ wpc' = IF enough_zeros(consecutive_zeros + 1)
                          THEN (IF workers > 0 THEN "send" ELSE "exit")
                          ELSE "poll"
         ELSE /\ consecutive_zeros' = 0
              /\ wpc' = "poll"
    /\ UNCHANGED <<cfgvars, faults, queue, inflight, progress, mainvars, sent, pc,
                   wlocals, shard>>

\* one iteration of "for _ in 0..workers { tx.send(Task::Shutdown) }"; break
WatcherSend ==
    /\ wpc = "send"
    /\ mpc # "done"
    /\ queue' = Append(queue, ShutdownTask)
    /\ sent' = sent + 1
    /\ wpc' = IF sent + 1 < workers THEN "send" ELSE "exit"
    /\ UNCHANGED <<cfgvars, faults, inflight, progress, mainvars, consecutive_zeros,
                   zero_run, pc, wlocals, shard>>

(***************************************************************************)
(* main: gather the stats, merge the shards.                               *)
(***************************************************************************)
\* j.join() of worker mi, in tid order
Join ==
    /\ mpc = "join"
    /\ pc[mi] = "done"
    /\ total' = [files |-> total.files + stats[mi].files,
                 errors |-> total.errors + stats[mi].errors,
                 bytes |-> total.bytes + stats[mi].bytes]
    /\ IF mi + 1 < workers
         THEN mi' = mi + 1 /\ mpc' = mpc
         ELSE mi' = 0 /\ mpc' = "merge"
    /\ UNCHANGED <<cfgvars, faults, queue, inflight, progress, merged, watchvars, pc,
                   wlocals, shard>>

HeaderLine == "INODE,ATIME,MTIME,UID,GID,MODE,SIZE,DISK,PATH"

\* the loop "for tid in 0..threads" of merge_shards_csv (unsorted) and
\* merge_shards_bin from tid on: a shard that does not exist is skipped, an
\* existing one is copied to the output and removed.  File::open of a file
\* that does not exist fails.
RECURSIVE merge_from_noskip(_, _, _, _)
merge_from_noskip(tid, threads, out, sh) ==
    IF tid >= threads THEN [status |-> "ok", out |-> out, shard |-> sh]
    ELSE IF ~sh[tid].exists THEN [status |-> "open_failed", out |-> out, shard |-> sh]
    ELSE merge_from_noskip(tid + 1, threads, out \o sh[tid].rows,
                           [sh EXCEPT ![tid] = NoFile])

RECURSIVE merge_from(_, _, _, _)
merge_from(tid, threads, out, sh) ==
    IF tid >= threads THEN [status |-> "ok", out |-> out, shard |-> sh]
    ELSE IF ~sh[tid].exists THEN merge_from(tid + 1, threads, out, sh)
    ELSE merge_from(tid + 1, threads, out \o sh[tid].rows,
                    [sh EXCEPT ![tid] = NoFile])

\* merge_shards without sorting
merge_shards(threads, fmt, sh) ==
    merge_from(0, threads, IF fmt = "Csv" THEN <<HeaderLine>> ELSE <<>>, sh)

\* merge_shards(..)?: File::create(final_path) may fail; any error ends main
Merge ==
    /\ mpc = "merge"
    /\ \/ /\ LET m == merge_shards(workers, out_fmt, shard)
             IN /\ merged' = [status |-> m.status, out |-> m.out]
                /\ shard' = m.shard
          /\ UNCHANGED faults
       \/ /\ faults > 0
          /\ faults' = faults - 1
          /\ merged' = [status |-> "create_failed", out |-> <<>>]
          /\ UNCHANGED shard
    /\ mpc' = "done"
    /\ UNCHANGED <<cfgvars, queue, inflight, progress, mi, total, watchvars, pc,
                   wlocals>>

Next ==
    \/ SeedCount
    \/ SeedSend
    \/ SpawnWatcher
    \/ SpawnWorker
    \/ WatcherSample
    \/ WatcherSend
    \/ Join
    \/ Merge
    \/ \E t \in Tids :
         \/ WorkerStart(t)
         \/ Recv(t)
         \/ DirSkip(t)
         \/ DirBegin(t)
         \/ EnumRun(t)
         \/ EnumSend(t)
         \/ DirEnd(t)
         \/ FilesRun(t)
         \/ FilesEnd(t)
         \/ WorkerFinal(t)

Spec == Init /\ [][Next]_vars

(***************************************************************************)
(* Fair scheduling: main, the watcher and every worker are threads the     *)
(* operating system keeps running; a thread that can take a step and stays *)
(* able to take it does take it.                                           *)
(***************************************************************************)
Main == SeedCount \/ SeedSend \/ SpawnWatcher \/ SpawnWorker \/ Join \/ Merge

Watcher == WatcherSample \/ WatcherSend

Worker(t) ==
    \/ WorkerStart(t) \/ Recv(t) \/ DirSkip(t) \/ DirBegin(t) \/ EnumRun(t)
    \/ EnumSend(t) \/ DirEnd(t) \/ FilesRun(t) \/ FilesEnd(t) \/ WorkerFinal(t)

FairSpec ==
    /\ Spec
    /\ WF_vars(Main)
    /\ WF_vars(Watcher)
    /\ \A t \in Tids : WF_vars(Worker(t))

(***************************************************************************)
(* The worker driven as its unit tests drive it: the channel is loaded     *)
(* with tasks by the caller (Dir and Files tasks of any path of the file   *)
(* system, and of a path that does not exist), each counted in-flight, and *)
(* one worker and the watcher run on it, with no environment failure.      *)
(***************************************************************************)
\* the items enum_dir finds in dir
files_of(dir) ==
    LET kept == SelectSeq(Fs[dir].entries,
                          LAMBDA e : entry_class(dir, e) = "file")
    IN [k \in 1..Len(kept) |-> Item(kept[k])]

TaskPool ==
    {DirTask(p) : p \in DOMAIN Fs \cup {"/gone"}}
    \cup {FilesTask(p, files_of(p)) : p \in {q \in DOMAIN Fs : files_of(q) # <<>>}}

InitTasks ==
    /\ op = "scan" /\ arg = <<>> /\ res = <<>>
    /\ scen \in 1..3
    /\ workers = 1
    /\ faults = 0
    /\ queue \in {<<a>> : a \in TaskPool} \cup {<<a, b>> : a, b \in TaskPool}
    /\ inflight = Len(queue)
    /\ progress = 0
    /\ mpc = "tasks"
    /\ mi = 0
    /\ total = StatsDefault
    /\ merged = NotMerged
    /\ wpc = "poll"
    /\ consecutive_zeros = 0
    /\ sent = 0
    /\ zero_run = 0
    /\ pc = [t \in Tids |-> IF t < workers THEN "start" ELSE "unspawned"]
    /\ cur = [t \in Tids |-> NoTask]
    /\ idx = [t \in Tids |-> 0]
    /\ page = [t \in Tids |-> <<>>]
    /\ pending = [t \in Tids |-> NoTask]
    /\ error_count = [t \in Tids |-> 0]
    /\ ed_errors = [t \in Tids |-> 0]
    /\ stats = [t \in Tids |-> StatsDefault]
    /\ task_errors0 = [t \in Tids |-> 0]
    /\ started = [t \in Tids |-> ""]
    /\ shutdowns = [t \in Tids |-> 0]
    /\ chunks = [t \in Tids |-> <<>>]
    /\ buf = [t \in Tids |-> <<>>]
    /\ shard = [t \in Tids |-> NoFile]

NextTasks ==
    \/ WatcherSample
    \/ WatcherSend
    \/ \E t \in Tids :
         \/ WorkerStart(t)
         \/ Recv(t)
         \/ DirSkip(t)
         \/ DirBegin(t)
         \/ EnumRun(t)
         \/ EnumSend(t)
         \/ DirEnd(t)
         \/ FilesRun(t)
         \/ FilesEnd(t)
         \/ WorkerFinal(t)

SpecTasks == InitTasks /\ [][NextTasks]_vars

(***************************************************************************)
(* Properties of the scan.                                                 *)
(***************************************************************************)
IsWork(task) == task.type \in {"Dir", "Files"}

Shutdowns(q) == Cardinality({i \in 1..Len(q) : q[i].type = "Shutdown"})

\* Dir and Files tasks in the channel
QueuedWork == Cardinality({i \in 1..Len(queue) : IsWork(queue[i])})

\* workers that handle a Dir or Files task
Handling == {t \in Tids : IsWork(cur[t])}

\* tasks counted in-flight and not yet sent, by enum_dir and by main
CountedNotSent ==
    Cardinality({t \in Tids : IsWork(pending[t])})
    + (IF mpc = "seed_send" THEN 1 ELSE 0)

\* the first root has been counted in-flight
Seeded == mpc # "seed_count" \/ mi > 1

\* a root is still to be seeded, or a Dir or Files task is not yet handled
WorkLeft ==
    \/ mpc \in {"seed_count", "seed_send"}
    \/ QueuedWork + Cardinality(Handling) + CountedNotSent > 0

\* C1. Shutdown safety: from the moment the watcher decides to send the
\* Shutdown tasks (five zero samples seen), no Dir or Files task is queued,
\* about to be sent or being handled, and none is so at any later point; no
\* Dir or Files task ever sits behind a Shutdown in the channel.
C1_ShutdownSafety ==
    /\ (wpc \in {"send", "exit"} \/ sent > 0 \/ Shutdowns(queue) > 0)
          => (QueuedWork = 0 /\ Handling = {} /\ CountedNotSent = 0)
    /\ \A i, j \in 1..Len(queue) :
          (i < j /\ queue[i].type = "Shutdown") => ~IsWork(queue[j])

\* the watcher has sent all Shutdown tasks of a scan with two workers or
\* more that handled tasks, and one of them is still in the channel
C1_Witness ==
    /\ workers >= 2
    /\ sent = workers
    /\ progress > 0
    /\ Shutdowns(queue) > 0

\* C2. In-flight accounting: in every state of a scan the counter equals
\* the number of Dir and Files tasks that are counted and not yet sent,
\* queued, or being handled (so each is counted once before it is sent and
\* uncounted once by the worker that took it, skip paths included), and the
\* counter is never below zero.
C2_InflightAccounting ==
    /\ inflight = CountedNotSent + QueuedWork + Cardinality(Handling)
    /\ inflight >= 0

\* in the scan with --skip: the root /s has been taken and skipped, while a
\* worker holds a counted, unsent Files task of /r
C2_Witness ==
    /\ scen = 2
    /\ mpc = "join"
    /\ \A i \in 1..Len(queue) : queue[i] # DirTask("/s")
    /\ \A t \in Tids : cur[t] # DirTask("/s")
    /\ \E t \in Tids : pending[t].type = "Files"
    /\ inflight = 2

\* C3. The counter reaches zero once: after the first root is counted it is
\* nonzero as long as a root is to be seeded or a Dir or Files task is not
\* fully handled, and once it is zero it stays zero.
C3_ZeroOnce ==
    [][/\ (Seeded /\ WorkLeft) => inflight # 0
       /\ (Seeded' /\ WorkLeft') => inflight' # 0
       /\ (Seeded /\ inflight = 0) => inflight' = 0]_vars

\* the scan of the directory with more than FILE_CHUNK files has ended with
\* the counter at zero
C3_Witness ==
    /\ scen = 4
    /\ mpc = "done"
    /\ inflight = 0
    /\ progress = FILE_CHUNK + ExtraFiles + 1

Range(sq) == {sq[i] : i \in 1..Len(sq)}

RowCount(sq, x) == Cardinality({i \in 1..Len(sq) : sq[i] = x})

\* the two sequences hold the same rows, each as many times
SameRows(a, b) ==
    /\ Len(a) = Len(b)
    /\ Range(a) = Range(b)
    /\ \/ Cardinality(Range(a)) = Len(a)
       \/ \A x \in Range(a) : RowCount(a, x) = RowCount(b, x)

\* the rows of the shards of workers 0..n-1
RECURSIVE ShardRows(_)
ShardRows(n) == IF n = 0 THEN <<>> ELSE ShardRows(n - 1) \o shard[n - 1].rows

ItemRows(base, items) ==
    [k \in 1..Len(items) |-> Row(join(base, items[k].name), items[k].blocks)]

\* one row for directory p, one for each of its non-directory entries, and
\* the same for every directory below it
RECURSIVE TreeRows(_)
RECURSIVE SubTreeRows(_, _)
TreeRows(p) ==
    <<Row(p, Fs[p].blocks)>>
    \o ItemRows(p, files_of(p))
    \o SubTreeRows(p, SelectSeq(Fs[p].entries, LAMBDA e : e.kind = "dir"))

SubTreeRows(p, dirs) ==
    IF dirs = <<>> THEN <<>>
    ELSE TreeRows(join(p, Head(dirs).name)) \o SubTreeRows(p, Tail(dirs))

\* the rows of the trees of roots 1..n, a tree under two roots twice
RECURSIVE RootRows(_)
RootRows(n) == IF n = 0 THEN <<>> ELSE RootRows(n - 1) \o TreeRows(roots[n])

\* all workers have returned and main has added up their Stats
WorkersExited == mpc = "merge"

\* no --skip, and no failure of the file system or of the output
NoSkipNoIoError == skip = None /\ faults = MaxFaults /\ total.errors = 0

\* C4 as stated: without --skip and I/O errors the shards hold, after the
\* workers exit, exactly one row per directory reachable from the roots and
\* one per non-directory entry, none lost and none duplicated.
C4_OneRowEach ==
    (WorkersExited /\ NoSkipNoIoError)
      => /\ Range(ShardRows(workers)) = Range(RootRows(Len(roots)))
         /\ Cardinality(Range(ShardRows(workers))) = Len(ShardRows(workers))

\* C4, amended: without --skip and I/O errors the shards hold, after the
\* workers exit, for every root argument one row per directory reachable
\* from it and one per non-directory entry below it, none lost and none
\* more often than that (an entry below two root arguments has two rows).
C4_OneRowPerRoot ==
    (WorkersExited /\ NoSkipNoIoError)
      => SameRows(ShardRows(workers), RootRows(Len(roots)))

\* the directory with more than FILE_CHUNK files has been scanned by two
\* workers that both wrote rows: n file rows and one directory row
C4_Witness ==
    /\ scen = 4
    /\ WorkersExited /\ NoSkipNoIoError
    /\ workers >= 2
    /\ shard[0].rows # <<>> /\ shard[1].rows # <<>>
    /\ Len(ShardRows(workers)) = FILE_CHUNK + ExtraFiles + 1

\* workers whose shard and encoder were created
StartedOk == {t \in Tids : started[t] = "ok"}

\* workers that returned before the loop
Failed == {t \in Tids : started[t] \in {"no_shard", "no_encoder"}}

\* C5 as stated, in the form a finite run refutes: when main has passed the
\* merge step and returned, the counter has become zero and the watcher has
\* sent Shutdown.
C5_DoneAfterShutdown == mpc = "done" => (inflight = 0 /\ sent > 0)

\* C5, amended: under fair scheduling main always reaches the merge step
\* and returns; if a worker gets past the creation of its shard and
\* encoder, the counter becomes zero and the watcher sends Shutdown; and
\* every worker that got past it takes one Shutdown and returns.
C5_Termination ==
    <>(/\ mpc = "done"
       /\ StartedOk # {} => (inflight = 0 /\ sent > 0)
       /\ \A t \in StartedOk : pc[t] = "done" /\ shutdowns[t] = 1)

\* a scan with two workers or more has ended: all of them ran, each took a
\* Shutdown, main has merged
C5_Witness ==
    /\ workers >= 2
    /\ mpc = "done"
    /\ \A t \in Tids : t < workers => (started[t] = "ok" /\ shutdowns[t] = 1)
    /\ inflight = 0
    /\ sent = workers

RECURSIVE ExistingShardRows(_)
ExistingShardRows(n) ==
    IF n = 0 THEN <<>>
    ELSE ExistingShardRows(n - 1)
         \o (IF shard[n - 1].exists THEN shard[n - 1].rows ELSE <<>>)

\* C7. A worker that cannot create its shard or its encoder returns with
\* exactly one error and never takes a task; when another worker runs, all
\* Dir and Files tasks are handled before main merges, and the merge of
\* the shards succeeds, leaving out the shard that does not exist.
C7_LocalFailure ==
    /\ \A t \in Failed :
          /\ pc[t] = "done"
          /\ stats[t] = [files |-> 0, errors |-> 1, bytes |-> 0]
          /\ cur[t] = NoTask /\ pending[t] = NoTask /\ shutdowns[t] = 0
          /\ shard[t].rows = <<>>
          /\ (started[t] = "no_shard") => ~shard[t].exists
    /\ (StartedOk # {} /\ mpc \in {"merge", "done"})
          => (inflight = 0 /\ QueuedWork = 0 /\ Handling = {})
    /\ (StartedOk # {} /\ mpc = "merge")
          => LET m == merge_shards(workers, out_fmt, shard)
             IN /\ m.status = "ok"
                /\ m.out = (IF is_bin THEN <<>> ELSE <<HeaderLine>>)
                             \o ExistingShardRows(workers)
    /\ mpc = "done" => merged.status \in {"ok", "create_failed"}

\* worker 0 could not create its shard, worker 1 scanned the tree, and
\* main has merged the one shard there is
C7_Witness ==
    /\ workers >= 2
    /\ started[0] = "no_shard" /\ started[1] = "ok"
    /\ mpc = "done"
    /\ merged.status = "ok"
    /\ Len(merged.out) > 1

\* --skip is set and path contains the substring
Skipped(path) == skip # None /\ contains(path, skip[1])

\* C8. Skip: a worker that has taken a Dir or Files task whose path
\* contains the --skip substring writes no row (neither to its buffer nor
\* to its shard), counts nothing in its Stats, counts and sends no task;
\* its step on the task leaves the channel and the progress counter as
\* they are and takes exactly one from the in-flight counter.  enum_dir
\* never counts and sends a Dir task whose path contains the substring.
C8_SkipFrame ==
    [][/\ \A t \in Tids :
            (pc[t] = "task" /\ IsWork(cur[t]) /\ Skipped(cur[t].path))
              => /\ stats'[t] = stats[t]
                 /\ buf'[t] = buf[t]
                 /\ shard'[t] = shard[t]
                 /\ pending'[t] = NoTask
                 /\ \/ pc'[t] = "task" /\ cur'[t] = cur[t]
                    \/ /\ pc'[t] = "recv"
                       /\ inflight' = inflight - 1
                       /\ queue' = queue
                       /\ progress' = progress
       /\ \A t \in Tids :
            (pending'[t] # pending[t] /\ pending'[t].type = "Dir")
              => (~Skipped(pending'[t].path) /\ inflight' = inflight + 1)]_vars

\* a worker has taken a Files task whose base contains the substring, the
\* last task in flight, with nothing written and nothing counted so far
C8_Witness ==
    \E t \in Tids :
      /\ pc[t] = "task"
      /\ cur[t].type = "Files"
      /\ Skipped(cur[t].path)
      /\ inflight = 1
      /\ stats[t] = StatsDefault
      /\ progress = 0

\* C9 as stated: handling a Dir task whose directory cannot be read-dir'd
\* adds exactly one to the worker's error counter.
C9_ReadDirErrorOnce ==
    [][\A t \in Tids :
         (pc[t] = "dir_end" /\ pc'[t] = "recv" /\ read_dir(cur[t].path) = None)
           => stats'[t].errors = task_errors0[t] + 1]_vars

\* the Dir task of the vanished directory /r/v is at its end with the stat
\* failure counted in stats.errors and in error_count, and enum_dir's one
\* error to be added
C9_Witness ==
    \E t \in Tids :
      /\ pc[t] = "dir_end"
      /\ cur[t] = DirTask("/r/v")
      /\ stats[t].errors = task_errors0[t] + 1
      /\ error_count[t] = 1
      /\ ed_errors[t] = 1

RECURSIVE SumSeq(_)
SumSeq(sq) == IF sq = <<>> THEN 0 ELSE Head(sq) + SumSeq(Tail(sq))

\* the successfully statted non-directory entries of dir, in directory order
StattedFiles(dir) ==
    LET kept == SelectSeq(Fs[dir].entries,
                          LAMBDA e : e.kind \in {"file", "symlink"}
                                     /\ e.name \notin {".", ".."})
    IN [k \in 1..Len(kept) |-> [name |-> kept[k].name, blocks |-> kept[k].blocks]]

\* C10. File batching: a Files task that enum_dir counts holds the next 1
\* to 2048 statted non-directory entries of the directory that follow the
\* ones already sent; all Files tasks sent but the last hold exactly 2048;
\* when enum_dir returns all n entries have been sent; every Files task
\* anywhere holds 1 to 2048 items; and a task is counted in-flight exactly
\* when it is about to be sent.
C10_FileBatching ==
    /\ \A t \in Tids :
          /\ pending[t].type = "Files"
                => /\ Len(pending[t].items) \in 1..2048
                   /\ pending[t].path = cur[t].path
                   /\ pending[t].items
                        = SubSeq(StattedFiles(cur[t].path), SumSeq(chunks[t]) + 1,
                                 SumSeq(chunks[t]) + Len(pending[t].items))
          /\ \A i \in 1..Len(chunks[t]) :
                /\ chunks[t][i] \in 1..2048
                /\ (i < Len(chunks[t]) \/ IsWork(pending[t]) \/ pc[t] = "enum")
                      => chunks[t][i] = 2048
          /\ (pc[t] = "dir_end" /\ read_dir(cur[t].path) # None)
                => SumSeq(chunks[t]) = Len(StattedFiles(cur[t].path))
          /\ cur[t].type = "Files" => Len(cur[t].items) \in 1..2048
          /\ IsWork(pending[t]) <=> pc[t] \in {"send", "send_last"}
    /\ \A i \in 1..Len(queue) :
          queue[i].type = "Files" => Len(queue[i].items) \in 1..2048

\* enum_dir has returned for the directory with FILE_CHUNK + ExtraFiles
\* files after a Files task of 2048 items and one of the rest
C10_Witness ==
    \E t \in Tids :
      /\ scen = 4
      /\ pc[t] = "dir_end"
      /\ chunks[t] = <<2048, ExtraFiles>>

(***************************************************************************)
(* Files as bytes.  A byte string is a sequence of integers 0..255; the    *)
(* functions below are the encoders of src/rs/src/util/csv.rs and          *)
(* src/rs/src/bin/duscan/csv.rs, computed byte by byte.                    *)
(***************************************************************************)
QUOTE == 34
COMMA == 44
LF == 10
CR == 13
DASH == 45
SPACE == 32
DIGIT0 == 48
BAD == 255     \* a byte that occurs in no UTF-8 text

\* the bytes of a text of letters and commas, as_bytes(): the letters are in
\* code order from "A" (65) and from "a" (97)
Bytes(str) ==
    LET upper == "ABCDEFGHIJKLMNOPQRSTUVWXYZ"
        lower == "abcdefghijklmnopqrstuvwxyz"
        index(chars, ch) ==
            IF \E i \in 1..Len(chars) : SubSeq(chars, i, i) = ch
            THEN CHOOSE i \in 1..Len(chars) : SubSeq(chars, i, i) = ch
            ELSE 0
        byte(ch) == IF ch = "," THEN COMMA
                    ELSE IF index(upper, ch) > 0 THEN 64 + index(upper, ch)
                    ELSE 96 + index(lower, ch)
    IN  [i \in 1..Len(str) |-> byte(SubSeq(str, i, i))]

RECURSIVE Concat(_)
Concat(sqs) == IF sqs = <<>> THEN <<>> ELSE Head(sqs) \o Concat(Tail(sqs))

\* itoa: the decimal digits of an unsigned value
RECURSIVE push_u64(_)
push_u64(v) ==
    IF v < 10 THEN <<DIGIT0 + v>> ELSE push_u64(v \div 10) \o <<DIGIT0 + (v % 10)>>

push_u32(v) == push_u64(v)

push_i64(v) == IF v < 0 THEN <<DASH>> \o push_u64(0 - v) ELSE push_u64(v)

\* a test for quoting that overlooks the carriage return
needs_quoting_no_cr(bytes) ==
    \E i \in 1..Len(bytes) : bytes[i] \in {QUOTE, COMMA, LF}

needs_quoting(bytes) ==
    \E i \in 1..Len(bytes) : bytes[i] \in {QUOTE, COMMA, LF, CR}

\* a quoted field whose quotes are left single
double_quotes_not(bytes) == bytes

RECURSIVE double_quotes(_)
double_quotes(bytes) ==
    IF bytes = <<>> THEN <<>>
    ELSE (IF Head(bytes) = QUOTE THEN <<QUOTE, QUOTE>> ELSE <<Head(bytes)>>)
           \o double_quotes(Tail(bytes))

csv_push_bytes_smart_quoted(bytes) ==
    IF ~needs_quoting(bytes) THEN bytes
    ELSE <<QUOTE>>
           \o (IF \A i \in 1..Len(bytes) : bytes[i] # QUOTE
               THEN bytes ELSE double_quotes(bytes))
           \o <<QUOTE>>

\* a file's metadata, row_from_metadata on unix
Meta(dev, ino, mode, uid, gid, size, blocks, atime, mtime) ==
    [dev |-> dev, ino |-> ino, mode |-> mode, uid |-> uid, gid |-> gid,
     size |-> size, blocks |-> blocks, atime |-> atime, mtime |-> mtime]

write_row_csv(path, r, no_atime) ==
    push_u64(r.dev) \o <<DASH>> \o push_u64(r.ino) \o <<COMMA>>
      \o (IF no_atime THEN push_i64(0) ELSE push_i64(r.atime)) \o <<COMMA>>
      \o push_i64(r.mtime) \o <<COMMA>>
      \o push_u32(r.uid) \o <<COMMA>>
      \o push_u32(r.gid) \o <<COMMA>>
      \o push_u32(r.mode) \o <<COMMA>>
      \o push_u64(r.size) \o <<COMMA>>
      \o push_u64(r.blocks * 512) \o <<COMMA>>
      \o csv_push_bytes_smart_quoted(path) \o <<LF>>

\* to_le_bytes of an n-byte integer (two's complement for a negative one)
RECURSIVE le_bytes(_, _)
le_bytes(v, n) == IF n = 0 THEN <<>> ELSE <<v % 256>> \o le_bytes(v \div 256, n - 1)

write_row_bin(path, r, no_atime) ==
    le_bytes(Len(path), 4) \o path
      \o le_bytes(r.dev, 8) \o le_bytes(r.ino, 8)
      \o le_bytes(IF no_atime THEN 0 ELSE r.atime, 8) \o le_bytes(r.mtime, 8)
      \o le_bytes(r.uid, 4) \o le_bytes(r.gid, 4) \o le_bytes(r.mode, 4)
      \o le_bytes(r.size, 8) \o le_bytes(r.blocks * 512, 8)

(***************************************************************************)
(* zstd.  A compressed file is a sequence of frames; each frame carries    *)
(* the bytes it wraps.  An encoder that is finished has written one frame, *)
(* and the decoder reads every frame of a file up to its end.              *)
(***************************************************************************)
zstd_encode(data) == <<[magic |-> "zstd", data |-> data]>>

RECURSIVE zstd_decode(_)
zstd_decode(frames) ==
    IF frames = <<>> THEN <<>> ELSE Head(frames).data \o zstd_decode(Tail(frames))

(***************************************************************************)
(* A function or a converter run on its own: the scanner's threads are not *)
(* started, and only op, arg and res change.                               *)
(***************************************************************************)
scanvars == <<scen, workers, faults, queue, inflight, progress, mainvars, watchvars,
              pc, wlocals, shard>>

ScanIdle ==
    /\ scen = 1
    /\ workers = 1
    /\ faults = 0
    /\ queue = <<>>
    /\ inflight = 0
    /\ progress = 0
    /\ mpc = "seed_count"
    /\ mi = 1
    /\ total = StatsDefault
    /\ merged = NotMerged
    /\ wpc = "unspawned"
    /\ consecutive_zeros = 0
    /\ sent = 0
    /\ zero_run = 0
    /\ pc = [t \in Tids |-> "unspawned"]
    /\ cur = [t \in Tids |-> NoTask]
    /\ idx = [t \in Tids |-> 0]
    /\ page = [t \in Tids |-> <<>>]
    /\ pending = [t \in Tids |-> NoTask]
    /\ error_count = [t \in Tids |-> 0]
    /\ ed_errors = [t \in Tids |-> 0]
    /\ stats = [t \in Tids |-> StatsDefault]
    /\ task_errors0 = [t \in Tids |-> 0]
    /\ started = [t \in Tids |-> ""]
    /\ shutdowns = [t \in Tids |-> 0]
    /\ chunks = [t \in Tids |-> <<>>]
    /\ buf = [t \in Tids |-> <<>>]
    /\ shard = [t \in Tids |-> NoFile]

(***************************************************************************)
(* merge_shards on files of bytes (src/rs/src/bin/duscan/merge.rs).  A     *)
(* directory is a function from tid to the content of shard_<tid>.tmp,     *)
(* None where the file does not exist.                                     *)
(***************************************************************************)
MaxShards == 2

HeaderBytes == Bytes(HeaderLine) \o <<LF>>

\* std::fs::remove_file left out
remove_file_kept(files, tid) == files

\* std::fs::remove_file(shard); its result is discarded by the caller
remove_file(files, tid) == [files EXCEPT ![tid] = None]

\* the loop of the unsorted mode, from shard tid on
RECURSIVE copy_shards_from(_, _, _, _)
copy_shards_from(files, tid, threads, out) ==
    IF tid >= threads THEN [status |-> "ok", out |-> out, files |-> files]
    ELSE IF files[tid] = None THEN copy_shards_from(files, tid + 1, threads, out)
    ELSE copy_shards_from(remove_file(files, tid), tid + 1, threads,
                          out \o files[tid][1])

\* String::from_utf8 accepts the bytes (of the bytes used here, all but BAD
\* are ASCII)
is_utf8(bytes) == \A i \in 1..Len(bytes) : bytes[i] < 128

\* str::split_inclusive('\n'), and the lines of read_line_bytes: each piece
\* runs from the byte after a newline (or the first byte) through the next
\* newline (or the last byte)
split_inclusive(bytes) ==
    LET starts == {1} \cup {i + 1 : i \in {k \in 1..(Len(bytes) - 1) : bytes[k] = LF}}
        ends == {k \in 1..Len(bytes) : bytes[k] = LF} \cup {Len(bytes)}
        nth(S, n) == CHOOSE x \in S : Cardinality({y \in S : y < x}) = n - 1
    IN  IF bytes = <<>> THEN <<>>
        ELSE [n \in 1..Cardinality(starts) |-> SubSeq(bytes, nth(starts, n), nth(ends, n))]

\* char::is_whitespace, on ASCII
Whitespace == ((LF - 1)..CR) \cup {SPACE}

strip_suffix_lf(line) ==
    IF line # <<>> /\ line[Len(line)] = LF THEN SubSeq(line, 1, Len(line) - 1) ELSE line

\* the lines the sorted mode keeps of one shard: not those for which
\* line.trim().is_empty()
RECURSIVE keep_lines(_)
keep_lines(pieces) ==
    IF pieces = <<>> THEN <<>>
    ELSE LET line == Head(pieces)
             ln == strip_suffix_lf(line)
         IN  (IF (\A i \in 1..Len(line) : line[i] \in Whitespace) \/ ln = <<>>
              THEN <<>> ELSE <<ln>>)
               \o keep_lines(Tail(pieces))

\* Ord of str: byte-wise lexicographic
RECURSIVE lex_less(_, _)
lex_less(a, b) ==
    IF b = <<>> THEN FALSE
    ELSE IF a = <<>> THEN TRUE
    ELSE IF Head(a) # Head(b) THEN Head(a) < Head(b)
    ELSE lex_less(Tail(a), Tail(b))

RECURSIVE insert_sorted(_, _)
insert_sorted(x, sq) ==
    IF sq = <<>> THEN <<x>>
    ELSE IF lex_less(Head(sq), x) THEN <<Head(sq)>> \o insert_sorted(x, Tail(sq))
    ELSE <<x>> \o sq

\* lines.sort_unstable()
RECURSIVE sort_unstable(_)
sort_unstable(sq) ==
    IF sq = <<>> THEN <<>> ELSE insert_sorted(Head(sq), sort_unstable(Tail(sq)))

RECURSIVE write_lines(_)
write_lines(lines) ==
    IF lines = <<>> THEN <<>> ELSE Head(lines) \o <<LF>> \o write_lines(Tail(lines))

\* the loop of the sorted mode, from shard tid on; read_to_string fails on a
\* shard that is not UTF-8, and the function returns with the header written
RECURSIVE sort_shards_from(_, _, _, _)
sort_shards_from(files, tid, threads, lines) ==
    IF tid >= threads
    THEN [status |-> "ok", out |-> HeaderBytes \o write_lines(sort_unstable(lines)),
          files |-> files]
    ELSE IF files[tid] = None THEN sort_shards_from(files, tid + 1, threads, lines)
    ELSE IF ~is_utf8(files[tid][1])
    THEN [status |-> "read_error", out |-> HeaderBytes, files |-> files]
    ELSE sort_shards_from(remove_file(files, tid), tid + 1, threads,
                          lines \o keep_lines(split_inclusive(files[tid][1])))

merge_shards_csv(files, threads, sort_csv) ==
    IF ~sort_csv THEN copy_shards_from(files, 0, threads, HeaderBytes)
    ELSE sort_shards_from(files, 0, threads, <<>>)

\* a merge that decodes the shards and writes their records as one frame
merge_shards_bin_reframed(files, threads) ==
    LET r == copy_shards_from(files, 0, threads, <<>>)
    IN  [r EXCEPT !.out = zstd_encode(zstd_decode(r.out))]

merge_shards_bin(files, threads) == copy_shards_from(files, 0, threads, <<>>)

\* merge_shards, with sort_csv as main computes it
merge_shard_files(files, threads, fmt, no_atime) ==
    IF fmt = "Csv" THEN merge_shards_csv(files, threads, no_atime)
    ELSE merge_shards_bin(files, threads)

(***************************************************************************)
(* The shards the workers leave behind.  A worker appends whole rows to    *)
(* its shard: CSV rows as write_row_csv encodes them, or, in binary mode,  *)
(* the records of write_row_bin through its own zstd encoder, which is     *)
(* finished when the worker returns.                                       *)
(***************************************************************************)
SampleMeta == Meta(1, 2, 420, 0, 0, 5, 1, 7, 9)

PathA == Bytes("a")
PathB == Bytes("b")
\* a file name of three lines, the middle one a single space
PathLines == Bytes("c") \o <<LF, SPACE, LF>> \o Bytes("d")
\* a file name that is not UTF-8
PathBad == Bytes("e") \o <<BAD>>

ShardSamples(fmt, no_atime) ==
    LET row(p) == write_row_csv(p, SampleMeta, no_atime)
        rec(p) == write_row_bin(p, SampleMeta, no_atime)
    IN  IF fmt = "Csv"
        THEN {None, Some(<<>>), Some(row(PathA)), Some(row(PathB)),
              Some(row(PathB) \o row(PathA)), Some(row(PathLines)), Some(row(PathBad))}
        ELSE {None, Some(<<>>), Some(zstd_encode(<<>>)), Some(zstd_encode(rec(PathA))),
              Some(zstd_encode(rec(PathB) \o rec(PathLines)))}

InitMerge ==
    /\ ScanIdle
    /\ op = "merge_shards"
    /\ res = <<>>
    /\ \E fmt \in {"Csv", "Bin"}, no_atime \in BOOLEAN, threads \in 1..MaxShards :
         \E files \in [0..MaxShards -> ShardSamples(fmt, no_atime)] :
            arg = [fmt |-> fmt, no_atime |-> no_atime, threads |-> threads,
                   files |-> files]

MergeRun ==
    /\ op = "merge_shards"
    /\ res = <<>>
    /\ res' = <<merge_shard_files(arg.files, arg.threads, arg.fmt, arg.no_atime)>>
    /\ UNCHANGED <<op, arg, scanvars>>

SpecMerge == InitMerge /\ [][MergeRun]_vars

\* claim C11: in the unsorted modes the merged file is the header (CSV only,
\* once, first) followed by the whole content of every existing shard in
\* ascending tid order; missing shards are skipped; and after the merge no
\* shard with tid below the worker count is left, while others are untouched.
RECURSIVE ExistingContent(_, _, _)
ExistingContent(files, tid, threads) ==
    IF tid >= threads THEN <<>>
    ELSE (IF files[tid] = None THEN <<>> ELSE files[tid][1])
           \o ExistingContent(files, tid + 1, threads)

Unsorted == ~(arg.fmt = "Csv" /\ arg.no_atime)

RECURSIVE NonEmptyLines(_)
NonEmptyLines(pieces) ==
    IF pieces = <<>> THEN <<>>
    ELSE (IF strip_suffix_lf(Head(pieces)) = <<>> THEN <<>>
          ELSE <<strip_suffix_lf(Head(pieces))>>)
           \o NonEmptyLines(Tail(pieces))

RECURSIVE ShardLines(_, _, _)
ShardLines(files, tid, threads) ==
    IF tid >= threads THEN <<>>
    ELSE (IF files[tid] = None THEN <<>>
          ELSE NonEmptyLines(split_inclusive(files[tid][1])))
           \o ShardLines(files, tid + 1, threads)

SortedMode == arg.fmt = "Csv" /\ arg.no_atime

\* claim C12: in zero-atime CSV mode the merged file is the header followed by
\* all non-empty lines of all shards in ascending byte-wise lexicographic
\* order, each terminated by exactly one newline.
C12_SortedMerge ==
    (op = "merge_shards" /\ res # <<>> /\ SortedMode)
       => /\ res[1].status = "ok"
          /\ res[1].out = HeaderBytes
               \o write_lines(sort_unstable(ShardLines(arg.files, 0, arg.threads)))

\* the merge has run on shards one of which holds the row of a file whose
\* name has a line of one space, and that line is not in the merged file
C12_Witness ==
    /\ op = "merge_shards" /\ res # <<>> /\ SortedMode
    /\ res[1].status = "ok"
    /\ \E tid \in 0..(arg.threads - 1) :
          arg.files[tid] = Some(write_row_csv(PathLines, SampleMeta, TRUE))
    /\ Len(res[1].out) < Len(HeaderBytes) + Len(Concat([tid \in 1..arg.threads |->
                               IF arg.files[tid - 1] = None THEN <<>>
                               ELSE arg.files[tid - 1][1]]))

\* the shards below the worker count whose worker created and finished its
\* encoder (a shard left empty is one whose encoder could not be created)
FramedShards == {tid \in 0..(arg.threads - 1) : arg.files[tid] \notin {None, Some(<<>>)}}

RECURSIVE PackedStream(_, _, _)
PackedStream(files, tid, threads) ==
    IF tid >= threads THEN <<>>
    ELSE (IF files[tid] = None THEN <<>> ELSE zstd_decode(files[tid][1]))
           \o PackedStream(files, tid + 1, threads)

\* claim C13, as stated: the binary row file of a scan, whatever the worker
\* count, is exactly one zstd frame wrapping the packed record stream.
C13_OneFrame ==
    (/\ op = "merge_shards" /\ res # <<>> /\ arg.fmt = "Bin"
     /\ FramedShards = 0..(arg.threads - 1))
       => /\ Len(res[1].out) = 1
          /\ res[1].out[1].data = PackedStream(arg.files, 0, arg.threads)

\* claim C13, amended: the binary row file is the concatenation, in ascending
\* tid order, of one zstd frame per worker that finished its encoder (also a
\* worker that wrote no record), and decoding all the frames gives the packed
\* record stream; it is a single frame only when a single worker wrote one.
C13_FramePerWorker ==
    (op = "merge_shards" /\ res # <<>> /\ arg.fmt = "Bin")
       => /\ res[1].status = "ok"
          /\ Len(res[1].out) = Cardinality(FramedShards)
          /\ \A i \in 1..Len(res[1].out) : res[1].out[i].magic = "zstd"
          /\ zstd_decode(res[1].out) = PackedStream(arg.files, 0, arg.threads)

\* two workers have each left a finished shard, one of them without a
\* record, and the merged file holds two frames
C13_Witness ==
    /\ op = "merge_shards" /\ res # <<>> /\ arg.fmt = "Bin"
    /\ arg.threads = 2
    /\ arg.files[0] = Some(zstd_encode(<<>>))
    /\ arg.files[1] = Some(zstd_encode(write_row_bin(PathA, SampleMeta, arg.no_atime)))
    /\ Len(res[1].out) = 2

(***************************************************************************)
(* The CSV parser of the converter (src/rs/src/bin/duzip/record.rs).       *)
(***************************************************************************)
\* the loop of parse_csv_line_bytes from position i on
RECURSIVE csv_fields_from(_, _, _, _, _)
csv_fields_from(line, i, in_quotes, current_field, fields) ==
    IF i > Len(line) THEN Append(fields, current_field)
    ELSE IF line[i] = QUOTE /\ ~in_quotes
         THEN csv_fields_from(line, i + 1, TRUE, current_field, fields)
    ELSE IF line[i] = QUOTE
         THEN IF i + 1 <= Len(line) /\ line[i + 1] = QUOTE
              THEN csv_fields_from(line, i + 2, TRUE, Append(current_field, QUOTE), fields)
              ELSE csv_fields_from(line, i + 1, FALSE, current_field, fields)
    ELSE IF line[i] = COMMA /\ ~in_quotes
         THEN csv_fields_from(line, i + 1, FALSE, <<>>, Append(fields, current_field))
    ELSE csv_fields_from(line, i + 1, in_quotes, Append(current_field, line[i]), fields)

parse_csv_line_bytes(line) == csv_fields_from(line, 1, FALSE, <<>>, <<>>)

\* String::from_utf8_lossy: a byte that is no UTF-8 becomes U+FFFD (EF BF BD)
RECURSIVE from_utf8_lossy(_)
from_utf8_lossy(bytes) ==
    IF bytes = <<>> THEN <<>>
    ELSE (IF Head(bytes) = BAD THEN <<239, 191, 189>> ELSE <<Head(bytes)>>)
           \o from_utf8_lossy(Tail(bytes))

\* str::split(sep): the pieces between the separators, at least one
RECURSIVE split_on(_, _, _)
split_on(str, sep, piece) ==
    IF str = <<>> THEN <<piece>>
    ELSE IF Head(str) = sep THEN <<piece>> \o split_on(Tail(str), sep, <<>>)
    ELSE split_on(Tail(str), sep, Append(piece, Head(str)))

IsDigits(str) ==
    /\ str # <<>>
    /\ \A i \in 1..Len(str) : str[i] \in DIGIT0..(DIGIT0 + 9)

RECURSIVE digits_value(_, _)
digits_value(str, acc) ==
    IF str = <<>> THEN acc ELSE digits_value(Tail(str), 10 * acc + (Head(str) - DIGIT0))

PLUS == DASH - 2

\* a parse that gives zero for what is no number
parse_unsigned_or_zero(str) ==
    LET d == IF str # <<>> /\ str[1] = PLUS THEN Tail(str) ELSE str
    IN  IF IsDigits(d) THEN Some(digits_value(d, 0)) ELSE Some(0)

\* str::parse::<u64> and ::<u32>: an optional "+" and decimal digits.  The
\* numbers of the model stay below 10^9, where neither type overflows.
parse_unsigned(str) ==
    LET d == IF str # <<>> /\ str[1] = PLUS THEN Tail(str) ELSE str
    IN  IF IsDigits(d) THEN Some(digits_value(d, 0)) ELSE None

\* str::parse::<i64>: an optional sign and decimal digits
parse_signed(str) ==
    IF str # <<>> /\ str[1] = DASH
    THEN (IF IsDigits(Tail(str)) THEN Some(0 - digits_value(Tail(str), 0)) ELSE None)
    ELSE parse_unsigned(str)

BinaryRecord(path, nums) ==
    [path |-> path, dev |-> nums[1][1], ino |-> nums[2][1], atime |-> nums[3][1],
     mtime |-> nums[4][1], uid |-> nums[5][1], gid |-> nums[6][1], mode |-> nums[7][1],
     size |-> nums[8][1], disk |-> nums[9][1]]

Ok(v) == [ok |-> TRUE, val |-> v]
Err(e) == [ok |-> FALSE, err |-> e]

\* the numeric fields in the order they are parsed; the first that fails is
\* the error returned
record_of(path, nums) ==
    LET names == <<"dev", "ino", "atime", "mtime", "uid", "gid", "mode", "size", "disk">>
    IN  IF \E i \in 1..Len(nums) : nums[i] = None
        THEN Err("Invalid " \o names[CHOOSE i \in 1..Len(nums) :
                                        /\ nums[i] = None
                                        /\ \A j \in 1..(i - 1) : nums[j] # None])
        ELSE Ok(BinaryRecord(path, nums))

parse_csv_record_bytes(line) ==
    LET fields == parse_csv_line_bytes(line)
        inode_parts == split_on(from_utf8_lossy(fields[1]), DASH, <<>>)
    IN  IF Len(fields) # 9 THEN Err("must have 9 fields")
        ELSE IF Len(inode_parts) # 2 THEN Err("Invalid INODE format")
        ELSE record_of(fields[9],
                       <<parse_unsigned(inode_parts[1]), parse_unsigned(inode_parts[2]),
                         parse_signed(from_utf8_lossy(fields[2])),
                         parse_signed(from_utf8_lossy(fields[3])),
                         parse_unsigned(from_utf8_lossy(fields[4])),
                         parse_unsigned(from_utf8_lossy(fields[5])),
                         parse_unsigned(from_utf8_lossy(fields[6])),
                         parse_unsigned(from_utf8_lossy(fields[7])),
                         parse_unsigned(from_utf8_lossy(fields[8]))>>)

\* the converter's encoder of the PATH field (unix)
csv_push_path(path_bytes) ==
    IF ~(\E i \in 1..Len(path_bytes) : path_bytes[i] \in {QUOTE, COMMA, LF, CR})
    THEN path_bytes
    ELSE <<QUOTE>> \o double_quotes(path_bytes) \o <<QUOTE>>

(***************************************************************************)
(* The row codec run on its own: a row is encoded by the scanner and the   *)
(* line is parsed by the converter; or a line, possibly corrupted, is      *)
(* parsed.                                                                 *)
(***************************************************************************)
MaxPathLen == 3

RECURSIVE SeqsUpTo(_, _)
SeqsUpTo(S, n) ==
    IF n = 0 THEN {<<>>}
    ELSE LET shorter == SeqsUpTo(S, n - 1)
         IN  shorter \cup {Append(sq, x) : sq \in {p \in shorter : Len(p) = n - 1}, x \in S}

\* every path of up to MaxPathLen bytes, each an ordinary byte, one of the four
\* that need quoting, or one that is no UTF-8
PathSamples == SeqsUpTo({Bytes("a")[1], QUOTE, COMMA, LF, CR, BAD}, MaxPathLen)

MetaSamples ==
    {SampleMeta, Meta(0, 0, 0, 0, 0, 0, 0, 0, 0),
     Meta(2049, 12345, 33188, 1000, 1000, 1024, 8, 0 - 1, 0 - 1000000000)}

\* the record a row stands for: DISK is blocks * 512, ATIME is zeroed on request
record_of_row(path, r, no_atime) ==
    [path |-> path, dev |-> r.dev, ino |-> r.ino,
     atime |-> IF no_atime THEN 0 ELSE r.atime, mtime |-> r.mtime,
     uid |-> r.uid, gid |-> r.gid, mode |-> r.mode, size |-> r.size,
     disk |-> r.blocks * 512]

\* values a field of a corrupted line may have
FieldSamples ==
    {<<>>, Bytes("x"), <<DIGIT0 + 7>>, <<DASH, DIGIT0 + 7>>, <<PLUS, DIGIT0 + 7>>,
     <<SPACE, DIGIT0 + 7>>, <<DIGIT0 + 1, DASH, DIGIT0 + 2, DASH, DIGIT0 + 3>>,
     <<DASH>>, <<DIGIT0 + 3, DASH>>, <<DASH, DIGIT0 + 1, DASH, DIGIT0 + 2>>, <<BAD>>,
     <<DIGIT0 + 1, DASH, BAD>>, <<QUOTE, DIGIT0 + 4, DASH, DIGIT0 + 5, QUOTE>>}

GoodFields ==
    <<<<DIGIT0 + 1, DASH, DIGIT0 + 2>>, <<DIGIT0>>, <<DIGIT0 + 9>>, <<DIGIT0>>, <<DIGIT0>>,
      <<DIGIT0 + 4>>, <<DIGIT0 + 5>>, <<DIGIT0 + 6>>, Bytes("a")>>

RECURSIVE join_commas(_)
join_commas(fields) ==
    IF Len(fields) = 1 THEN fields[1]
    ELSE Head(fields) \o <<COMMA>> \o join_commas(Tail(fields))

\* well-formed lines with one field replaced, one field dropped or one added
LineSamples ==
    {join_commas([GoodFields EXCEPT ![i] = v]) : i \in 1..9, v \in FieldSamples}
      \cup {join_commas(SubSeq(GoodFields, 1, 8)), join_commas(GoodFields \o <<Bytes("b")>>),
            join_commas(GoodFields)}

InitCsv ==
    /\ ScanIdle
    /\ res = <<>>
    /\ \/ /\ op = "encode_parse"
          /\ arg \in [path : PathSamples, r : MetaSamples, no_atime : BOOLEAN]
       \/ /\ op = "parse"
          /\ arg \in LineSamples

\* write_row_csv, then parse_csv_record_bytes of the line without its newline
EncodeParse ==
    /\ op = "encode_parse"
    /\ res = <<>>
    /\ \E line \in {write_row_csv(arg.path, arg.r, arg.no_atime)} :
          res' = <<[line |-> line,
                    parsed |-> parse_csv_record_bytes(SubSeq(line, 1, Len(line) - 1))]>>
    /\ UNCHANGED <<op, arg, scanvars>>

ParseLine ==
    /\ op = "parse"
    /\ res = <<>>
    /\ res' = <<[fields |-> parse_csv_line_bytes(arg),
                 parsed |-> parse_csv_record_bytes(arg)]>>
    /\ UNCHANGED <<op, arg, scanvars>>

SpecCsv == InitCsv /\ [][EncodeParse \/ ParseLine]_vars

DashCount(str) == Cardinality({i \in 1..Len(str) : str[i] = DASH})

\* the text is a decimal number: digits after an optional "+", or after a "-"
\* where the type is signed
IsDecimal(str, signed) ==
    \/ IsDigits(str)
    \/ str # <<>> /\ str[1] = PLUS /\ IsDigits(Tail(str))
    \/ signed /\ str # <<>> /\ str[1] = DASH /\ IsDigits(Tail(str))

\* the INODE field up to its first "-", and after it
BeforeDash(str) == SubSeq(str, 1, (CHOOSE i \in 1..Len(str) :
                                     str[i] = DASH /\ \A j \in 1..(i - 1) : str[j] # DASH) - 1)
AfterDash(str) == SubSeq(str, Len(BeforeDash(str)) + 2, Len(str))

\* the value of a numeric field, zero where it is no number
ValueOrZero(str, signed) ==
    IF ~IsDecimal(str, signed) THEN 0
    ELSE IF str[1] = DASH THEN 0 - digits_value(Tail(str), 0)
    ELSE IF str[1] = PLUS THEN digits_value(Tail(str), 0)
    ELSE digits_value(str, 0)

Signed == <<FALSE, FALSE, TRUE, TRUE, FALSE, FALSE, FALSE, FALSE, FALSE>>

\* the nine numbers of a line of nine fields, as texts: dev, ino and fields 2 to 8
NumberTexts(fields) ==
    <<IF DashCount(fields[1]) = 0 THEN <<>> ELSE BeforeDash(fields[1]),
      IF DashCount(fields[1]) = 0 THEN <<>> ELSE AfterDash(fields[1])>>
      \o SubSeq(fields, 2, 8)

\* claim C16, as stated: parse_csv_record_bytes fails only when the line has
\* not nine fields or INODE has no "-"; INODE is split at its first "-"; and a
\* numeric field that is no number is read as zero.
C16_Tolerant ==
    (op = "parse" /\ res # <<>>)
       => LET fields == res[1].fields
              texts == NumberTexts(fields)
          IN  IF Len(fields) # 9 \/ DashCount(fields[1]) = 0
              THEN ~res[1].parsed.ok
              ELSE res[1].parsed
                     = Ok(BinaryRecord(fields[9],
                            [i \in 1..9 |-> Some(ValueOrZero(texts[i], Signed[i]))]))

\* claim C16, amended: parse_csv_record_bytes fails when the line has not nine
\* fields, when INODE has not exactly one "-", or when any of the nine numbers
\* is not a decimal number of its type; otherwise it returns their values and
\* the ninth field as the path. No field is ever read as zero by default.
C16_Strict ==
    (op = "parse" /\ res # <<>>)
       => LET fields == res[1].fields
              texts == NumberTexts(fields)
          IN  IF \/ Len(fields) # 9
                 \/ DashCount(fields[1]) # 1
                 \/ \E i \in 1..9 : ~IsDecimal(texts[i], Signed[i])
              THEN ~res[1].parsed.ok
              ELSE res[1].parsed
                     = Ok(BinaryRecord(fields[9],
                            [i \in 1..9 |-> Some(ValueOrZero(texts[i], Signed[i]))]))

\* a line of nine fields whose INODE is good and whose UID is the letter x
\* has been refused
C16_Witness ==
    /\ op = "parse" /\ res # <<>>
    /\ arg = join_commas([GoodFields EXCEPT ![4] = Bytes("x")])
    /\ Len(res[1].fields) = 9
    /\ res[1].parsed = Err("Invalid uid")

\* the position of the eighth comma of an encoded row: the end of its numbers
EighthComma(line) ==
    CHOOSE k \in 1..Len(line) :
        /\ line[k] = COMMA
        /\ Cardinality({j \in 1..k : line[j] = COMMA}) = 8

\* the PATH field of an encoded row: what follows, without the final newline
PathField(line) == SubSeq(line, EighthComma(line) + 1, Len(line) - 1)

Special(path) == \E i \in 1..Len(path) : path[i] \in {QUOTE, COMMA, LF, CR}

Doubled(path) ==
    Concat([i \in 1..Len(path) |->
              IF path[i] = QUOTE THEN <<QUOTE, QUOTE>> ELSE <<path[i]>>])

\* claim C17: the PATH field is the path verbatim iff the path holds none of
\* the quote, comma, LF and CR, and otherwise a quote, the path with every
\* quote doubled and all other bytes unchanged, and a quote; no other field
\* holds a quote; and the converter's encoder writes the same bytes.
C17_SmartQuoting ==
    (op = "encode_parse" /\ res # <<>>)
       => /\ PathField(res[1].line)
               = (IF Special(arg.path) THEN <<QUOTE>> \o Doubled(arg.path) \o <<QUOTE>>
                  ELSE arg.path)
          /\ (PathField(res[1].line) = arg.path) <=> ~Special(arg.path)
          /\ \A j \in 1..EighthComma(res[1].line) : res[1].line[j] # QUOTE
          /\ res[1].line[Len(res[1].line)] = LF
          /\ csv_push_path(arg.path) = PathField(res[1].line)

\* the row of a path made of a carriage return and a quote has been encoded
C17_Witness ==
    /\ op = "encode_parse" /\ res # <<>>
    /\ arg.path = <<CR, QUOTE>>
    /\ PathField(res[1].line) = <<QUOTE, CR, QUOTE, QUOTE, QUOTE>>

(***************************************************************************)
(* The converter (src/rs/src/bin/duzip).  A file is plain bytes ("csv"), a *)
(* sequence of zstd frames ("zst") or what an encoder that was dropped     *)
(* before finish() has left ("partial"); a directory maps each file name   *)
(* to its file, None where there is none.                                  *)
(***************************************************************************)
File(kind, data) == [kind |-> kind, data |-> data]

Name(stem, ext) == [stem |-> stem, ext |-> ext]

\* Path::with_extension
with_extension(p, ext) == Name(p.stem, ext)

\* a check of the output path that always finds it free
path_exists_never(fs, p) == FALSE

\* Path::exists
path_exists(fs, p) == fs[p] # None

\* str::trim
RECURSIVE trim(_)
trim(str) ==
    IF str # <<>> /\ Head(str) \in Whitespace THEN trim(Tail(str))
    ELSE IF str # <<>> /\ str[Len(str)] \in Whitespace
         THEN trim(SubSeq(str, 1, Len(str) - 1))
    ELSE str

write_binary_record(rec) ==
    le_bytes(Len(rec.path), 4) \o rec.path
      \o le_bytes(rec.dev, 8) \o le_bytes(rec.ino, 8)
      \o le_bytes(rec.atime, 8) \o le_bytes(rec.mtime, 8)
      \o le_bytes(rec.uid, 4) \o le_bytes(rec.gid, 4) \o le_bytes(rec.mode, 4)
      \o le_bytes(rec.size, 8) \o le_bytes(rec.disk, 8)

\* the line of csv_to_zst's loop without its "\n" and a "\r" before it
strip_line_end(line_buf) ==
    IF line_buf # <<>> /\ line_buf[Len(line_buf)] = LF
    THEN LET l == SubSeq(line_buf, 1, Len(line_buf) - 1)
         IN  IF l # <<>> /\ l[Len(l)] = CR THEN SubSeq(l, 1, Len(l) - 1) ELSE l
    ELSE line_buf

\* the loop of csv_to_zst over the lines read_line_bytes returns
RECURSIVE compress_lines(_, _)
compress_lines(pieces, packed) ==
    IF pieces = <<>> THEN Ok(packed)
    ELSE IF strip_line_end(Head(pieces)) = <<>> THEN compress_lines(Tail(pieces), packed)
    ELSE LET r == parse_csv_record_bytes(strip_line_end(Head(pieces)))
         IN  IF ~r.ok THEN r
             ELSE compress_lines(Tail(pieces), packed \o write_binary_record(r.val))

Outcome(status, fs) == [status |-> status, fs |-> fs]

\* the output file removed again when the conversion fails
compress_into_cleaning(fs, out_path, pieces) ==
    IF pieces = <<>> \/ ~is_utf8(Head(pieces))
         \/ trim(Head(pieces)) # Bytes(HeaderLine)
    THEN Outcome("Invalid CSV header", [fs EXCEPT ![out_path] = None])
    ELSE LET r == compress_lines(Tail(pieces), <<>>)
         IN  IF ~r.ok
             THEN Outcome(r.err, [fs EXCEPT ![out_path] = None])
             ELSE Outcome("ok", [fs EXCEPT ![out_path] = Some(File("zst", zstd_encode(r.val)))])

\* csv_to_zst after the output file is created: the header, then the lines
compress_into(fs, out_path, pieces) ==
    IF pieces = <<>> \/ ~is_utf8(Head(pieces))
         \/ trim(Head(pieces)) # Bytes(HeaderLine)
    THEN Outcome("Invalid CSV header", [fs EXCEPT ![out_path] = Some(File("partial", <<>>))])
    ELSE LET r == compress_lines(Tail(pieces), <<>>)
         IN  IF ~r.ok
             THEN Outcome(r.err, [fs EXCEPT ![out_path] = Some(File("partial", <<>>))])
             ELSE Outcome("ok", [fs EXCEPT ![out_path] = Some(File("zst", zstd_encode(r.val)))])

csv_to_zst(fs, input, output) ==
    LET out_path == IF output = None THEN with_extension(input, "zst") ELSE output[1]
    IN  IF fs[input] = None THEN Outcome("open failed", fs)
        ELSE IF path_exists(fs, out_path) THEN Outcome("Output file already exists", fs)
        ELSE IF fs[input][1].kind # "csv"
             THEN Outcome("Invalid CSV header",
                          [fs EXCEPT ![out_path] = Some(File("partial", <<>>))])
        ELSE compress_into([fs EXCEPT ![out_path] = Some(File("zst", <<>>))], out_path,
                           split_inclusive(fs[input][1].data))

\* from_le_bytes of an unsigned integer
RECURSIVE from_le_bytes(_)
from_le_bytes(b) == IF b = <<>> THEN 0 ELSE Head(b) + 256 * from_le_bytes(Tail(b))

\* i64::from_le_bytes: two's complement
i64_from_le_bytes(b) ==
    IF b[Len(b)] >= 128
    THEN 0 - (from_le_bytes([i \in 1..Len(b) |-> 255 - b[i]]) + 1)
    ELSE from_le_bytes(b)

\* the CSV line zst_to_csv writes for the record at the head of the stream
record_line(path, f) ==
    push_u64(from_le_bytes(SubSeq(f, 1, 8))) \o <<DASH>>
      \o push_u64(from_le_bytes(SubSeq(f, 9, 16))) \o <<COMMA>>
      \o push_i64(i64_from_le_bytes(SubSeq(f, 17, 24))) \o <<COMMA>>
      \o push_i64(i64_from_le_bytes(SubSeq(f, 25, 32))) \o <<COMMA>>
      \o push_u32(from_le_bytes(SubSeq(f, 33, 36))) \o <<COMMA>>
      \o push_u32(from_le_bytes(SubSeq(f, 37, 40))) \o <<COMMA>>
      \o push_u32(from_le_bytes(SubSeq(f, 41, 44))) \o <<COMMA>>
      \o push_u64(from_le_bytes(SubSeq(f, 45, 52))) \o <<COMMA>>
      \o push_u64(from_le_bytes(SubSeq(f, 53, 60))) \o <<COMMA>>
      \o csv_push_path(path) \o <<LF>>

\* the bytes of a record after its path
FixedLen == 6 * 8 + 3 * 4

\* the loop of zst_to_csv over the decoded stream; what was written before
\* an error stays in the output
RECURSIVE decompress_records(_, _)
decompress_records(stream, out) ==
    IF stream = <<>> THEN [status |-> "ok", out |-> out]
    ELSE IF Len(stream) < 4 THEN [status |-> "truncated record (path_len)", out |-> out]
    ELSE LET n == from_le_bytes(SubSeq(stream, 1, 4))
         IN  IF Len(stream) < 4 + n + FixedLen
             THEN [status |-> "truncated input", out |-> out]
             ELSE decompress_records(
                      SubSeq(stream, 4 + n + FixedLen + 1, Len(stream)),
                      out \o record_line(SubSeq(stream, 5, 4 + n),
                                         SubSeq(stream, 4 + n + 1, 4 + n + FixedLen)))

zst_to_csv(fs, input, output) ==
    LET out_path == IF output = None THEN with_extension(input, "csv") ELSE output[1]
    IN  IF fs[input] = None THEN Outcome("open failed", fs)
        ELSE IF \/ fs[input][1].data = <<>>
                \/ fs[input][1].kind = "csv" /\ Len(fs[input][1].data) < 4
             THEN Outcome("read_exact failed", fs)
        ELSE IF fs[input][1].kind # "zst" THEN Outcome("exit 1: Invalid format.", fs)
        ELSE IF path_exists(fs, out_path) THEN Outcome("Output file already exists", fs)
        ELSE LET r == decompress_records(zstd_decode(fs[input][1].data), HeaderBytes)
             IN  Outcome(r.status, [fs EXCEPT ![out_path] = Some(File("csv", r.out))])

(***************************************************************************)
(* Runs of the converter: one call on a directory of files, or a file of   *)
(* rows in the scanner's CSV form converted and converted back.            *)
(***************************************************************************)
MaxRows == 2

RowsCsv == Name("rows", "csv")
RowsZst == Name("rows", "zst")
BackCsv == Name("back", "csv")
Names == {RowsCsv, RowsZst, BackCsv}

\* a file name of two lines, the second of which reads as a row
PathRow == Bytes("f") \o <<LF>> \o write_row_csv(Bytes("g"), SampleMeta, FALSE)

ZipPaths ==
    {PathA, <<QUOTE>>, <<COMMA>>, <<CR>>, PathBad \o <<BAD - 1>>,
     Bytes("a") \o <<LF>> \o Bytes("b"), SubSeq(PathRow, 1, Len(PathRow) - 1)}

ZipRows == {write_row_csv(p, SampleMeta, FALSE) : p \in ZipPaths}

CsvFile(rows) == File("csv", HeaderBytes \o Concat(rows))

FileSamples ==
    {None, Some(CsvFile(<<write_row_csv(PathA, SampleMeta, FALSE)>>)),
     Some(File("zst", zstd_encode(write_row_bin(PathB, SampleMeta, FALSE)))),
     Some(File("csv", <<>>))}

Call(fn, input, output) == [fn |-> fn, input |-> input, output |-> output]

\* inputs for a conversion that is run twice: good rows, a row of ten fields,
\* a row whose inode has no device, a header that is not the scanner's, and
\* no line at all
RetrySamples ==
    LET row == write_row_csv(PathA, SampleMeta, FALSE)
    IN  {CsvFile(<<row>>), CsvFile(<<row, <<COMMA>> \o row>>), CsvFile(<<Tail(row)>>),
         File("csv", Bytes("PATH") \o <<LF>> \o row), File("csv", <<>>)}

InitZip ==
    /\ ScanIdle
    /\ op = "duzip"
    /\ res = <<>>
    /\ \/ \E fs \in [Names -> FileSamples], fn \in {"csv_to_zst", "zst_to_csv"},
             input \in {RowsCsv, RowsZst}, output \in {None} \cup {Some(n) : n \in Names} :
             arg = [fs |-> fs, calls |-> <<Call(fn, input, output)>>]
       \/ \E rows \in SeqsUpTo(ZipRows, MaxRows) :
             arg = [fs |-> [n \in Names |-> IF n = RowsCsv THEN Some(CsvFile(rows))
                                             ELSE None],
                    calls |-> <<Call("csv_to_zst", RowsCsv, None),
                                Call("zst_to_csv", RowsZst, Some(BackCsv))>>]
       \/ \E f \in RetrySamples, output \in {None, Some(BackCsv)} :
             arg = [fs |-> [n \in Names |-> IF n = RowsCsv THEN Some(f) ELSE None],
                    calls |-> <<Call("csv_to_zst", RowsCsv, output),
                                Call("csv_to_zst", RowsCsv, output)>>]

\* the directory as the calls made so far have left it
CurrentFs == IF res = <<>> THEN arg.fs ELSE res[Len(res)].fs

NextCall == arg.calls[Len(res) + 1]

CallEnabled(fn) ==
    /\ op = "duzip"
    /\ Len(res) < Len(arg.calls)
    /\ res # <<>> => (res[Len(res)].status = "ok" \/ NextCall = arg.calls[Len(res)])
    /\ NextCall.fn = fn

CsvToZst ==
    /\ CallEnabled("csv_to_zst")
    /\ res' = Append(res, csv_to_zst(CurrentFs, NextCall.input, NextCall.output))
    /\ UNCHANGED <<op, arg, scanvars>>

ZstToCsv ==
    /\ CallEnabled("zst_to_csv")
    /\ res' = Append(res, zst_to_csv(CurrentFs, NextCall.input, NextCall.output))
    /\ UNCHANGED <<op, arg, scanvars>>

SpecZip == InitZip /\ [][CsvToZst \/ ZstToCsv]_vars

RoundTrip == op = "duzip" /\ Len(arg.calls) = 2 /\ arg.calls[2].fn = "zst_to_csv"

\* claim C15: for every file of rows written in the scanner's CSV form,
\* csv_to_zst followed by zst_to_csv succeeds and gives the same rows in the
\* same order with byte-identical paths, whatever bytes the paths hold.
C15_PathTransparency ==
    RoundTrip
       => /\ \A i \in 1..Len(res) : res[i].status = "ok"
          /\ Len(res) = 2 => res[2].fs[BackCsv] = arg.fs[RowsCsv]

\* csv_to_zst has refused the file of a single row whose path holds a newline
C15_Witness ==
    /\ RoundTrip
    /\ arg.fs[RowsCsv]
         = Some(CsvFile(<<write_row_csv(Bytes("a") \o <<LF>> \o Bytes("b"), SampleMeta, FALSE)>>))
    /\ Len(res) = 1
    /\ res[1].status = "must have 9 fields"

\* both conversions have succeeded on the file of a single row whose path
\* holds a newline, and the file that comes back holds two rows
C15_Silent ==
    /\ RoundTrip
    /\ Len(res) = 2 /\ res[2].status = "ok"
    /\ Len(split_inclusive(arg.fs[RowsCsv][1].data)) = 3
    /\ res[2].fs[BackCsv] # arg.fs[RowsCsv]

\* the output path of the call that has just been made
OutPath(c) ==
    IF c.output # None THEN c.output[1]
    ELSE with_extension(c.input, IF c.fn = "csv_to_zst" THEN "zst" ELSE "csv")

\* claim C18: when the output path exists already, csv_to_zst and zst_to_csv
\* fail and no file is created, truncated or written: every file, the
\* existing output among them, is as it was.
C18_NeverOverwrites ==
    (op = "duzip" /\ Len(arg.calls) = 1 /\ res # <<>>
       /\ arg.fs[OutPath(arg.calls[1])] # None)
       => /\ res[1].status # "ok"
          /\ res[1].fs = arg.fs

\* zst_to_csv, given a good input and no output name, has refused to write
\* over the existing rows.csv
C18_Witness ==
    /\ op = "duzip" /\ Len(arg.calls) = 1 /\ res # <<>>
    /\ arg.calls[1] = Call("zst_to_csv", RowsZst, None)
    /\ arg.fs[RowsZst] # None /\ arg.fs[RowsZst][1].kind = "zst"
    /\ arg.fs[RowsCsv] # None
    /\ res[1].status = "Output file already exists"
    /\ res[1].fs = arg.fs

(***************************************************************************)
(* The aggregator's counters (src/rs/src/bin/dusum/stats.rs).  A u64 is    *)
(* kept at its width, as four limbs of 16 bits, least significant first.   *)
(***************************************************************************)
LimbBase == 256 * 256

u64(n) == <<n % LimbBase, n \div LimbBase, 0, 0>>

U64_MAX == <<LimbBase - 1, LimbBase - 1, LimbBase - 1, LimbBase - 1>>

\* u64::MAX - 1
AlmostMax == <<LimbBase - 2, LimbBase - 1, LimbBase - 1, LimbBase - 1>>

\* the limbs of a + b, followed by the carry out of the last limb
RECURSIVE add_carry(_, _, _)
add_carry(a, b, carry) ==
    IF a = <<>> THEN <<carry>>
    ELSE <<(Head(a) + Head(b) + carry) % LimbBase>>
           \o add_carry(Tail(a), Tail(b), (Head(a) + Head(b) + carry) \div LimbBase)

\* u64::wrapping_add in the place of the saturating one
wrapping_add(a, b) == SubSeq(add_carry(a, b, 0), 1, 4)

\* u64::saturating_add
saturating_add(a, b) ==
    IF add_carry(a, b, 0)[5] = 1 THEN U64_MAX ELSE SubSeq(add_carry(a, b, 0), 1, 4)

UserStats(file_count, file_size, disk_size, linked_size, latest_atime, latest_mtime) ==
    [file_count |-> file_count, file_size |-> file_size, disk_size |-> disk_size,
     linked_size |-> linked_size, latest_atime |-> latest_atime,
     latest_mtime |-> latest_mtime]

\* UserStats::default
UserStatsDefault == UserStats(u64(0), u64(0), u64(0), u64(0), 0, 0)

\* UserStats::update
update(s, size, disk, linked, atime_secs, mtime_secs) ==
    UserStats(saturating_add(s.file_count, u64(1)),
              saturating_add(s.file_size, size),
              saturating_add(s.disk_size, disk),
              saturating_add(s.linked_size, linked),
              IF atime_secs > s.latest_atime THEN atime_secs ELSE s.latest_atime,
              IF mtime_secs > s.latest_mtime THEN mtime_secs ELSE s.latest_mtime)

(***************************************************************************)
(* UserStats::update called twice on a UserStats.                          *)
(***************************************************************************)
U64Samples == {u64(0), u64(1000), U64_MAX}

Upd(size, disk, linked, atime, mtime) ==
    [size |-> size, disk |-> disk, linked |-> linked, atime |-> atime, mtime |-> mtime]

UpdSamples ==
    {Upd(size, d[1], d[2], atime, mtime) :
        size \in U64Samples,
        d \in {<<u64(1000), u64(0)>>, <<u64(0), u64(1000)>>,
               <<U64_MAX, u64(0)>>, <<u64(0), U64_MAX>>},
        atime \in {0 - 5, 7}, mtime \in {0, 9}}

StatsSamples ==
    {UserStatsDefault,
     UserStats(u64(2), u64(300), u64(100), u64(200), 3000, 8),
     UserStats(U64_MAX, AlmostMax, u64(0), U64_MAX, 0 - 7, 0 - 1),
     UserStats(AlmostMax, U64_MAX, U64_MAX, u64(1), 5, 9)}

apply(s, u) == update(s, u.size, u.disk, u.linked, u.atime, u.mtime)

InitStats ==
    /\ ScanIdle
    /\ op = "update"
    /\ res = <<>>
    /\ arg \in [s : StatsSamples, u1 : UpdSamples, u2 : UpdSamples]

UpdateFirst ==
    /\ op = "update"
    /\ res = <<>>
    /\ res' = <<apply(arg.s, arg.u1)>>
    /\ UNCHANGED <<op, arg, scanvars>>

UpdateSecond ==
    /\ op = "update"
    /\ Len(res) = 1
    /\ res' = Append(res, apply(res[1], arg.u2))
    /\ UNCHANGED <<op, arg, scanvars>>

SpecStats == InitStats /\ [][UpdateFirst \/ UpdateSecond]_vars

\* a <= b for two u64
RECURSIVE u64_le(_, _)
u64_le(a, b) ==
    IF a = <<>> THEN TRUE
    ELSE IF a[Len(a)] # b[Len(b)] THEN a[Len(a)] < b[Len(b)]
    ELSE u64_le(SubSeq(a, 1, Len(a) - 1), SubSeq(b, 1, Len(b) - 1))

\* c is a + b capped at u64::MAX: the exact sum where that fits in 64 bits,
\* and u64::MAX otherwise
CappedSum(a, b, c) ==
    /\ u64_le(a, c) /\ u64_le(b, c)
    /\ IF add_carry(a, b, 0)[5] = 0 THEN add_carry(a, b, 0) = c \o <<0>> ELSE c = U64_MAX

MaxOf(a, b) == IF a >= b THEN a ELSE b

After(s, u, t) ==
    /\ CappedSum(s.file_count, u64(1), t.file_count)
    /\ CappedSum(s.file_size, u.size, t.file_size)
    /\ CappedSum(s.disk_size, u.disk, t.disk_size)
    /\ CappedSum(s.linked_size, u.linked, t.linked_size)
    /\ t.latest_atime = MaxOf(s.latest_atime, u.atime)
    /\ t.latest_mtime = MaxOf(s.latest_mtime, u.mtime)

\* claim C20: UserStats::update is order-independent (U1 then U2 gives the
\* same UserStats as U2 then U1), each of the four counters is the sum capped
\* at u64::MAX, and latest_atime and latest_mtime after an update are the
\* maximum of the previous value and the update's time.
C20_UpdateCommutes ==
    (op = "update")
       => /\ Len(res) >= 1 => After(arg.s, arg.u1, res[1])
          /\ Len(res) = 2
               => /\ After(res[1], arg.u2, res[2])
                  /\ res[2] = apply(apply(arg.s, arg.u2), arg.u1)

\* two different updates have been applied to a UserStats whose file_size
\* was short of u64::MAX by one, and file_size is capped
C20_Witness ==
    /\ op = "update" /\ Len(res) = 2
    /\ arg.u1 # arg.u2
    /\ arg.s.file_size = AlmostMax
    /\ arg.u1.size = u64(1000)
    /\ res[1].file_size = U64_MAX
    /\ res[2].file_size = U64_MAX
    /\ res[2].latest_atime = 7 /\ arg.s.latest_atime = 0 - 7

(***************************************************************************)
(* The aggregator's loop over the records of its input                     *)
(* (src/rs/src/bin/dusum/main.rs).  A record is the sequence of its        *)
(* fields, each a byte string, as the csv reader returns them.             *)
(***************************************************************************)
SLASH == 47
BACKSLASH == 92
S_IFMT == 61440
S_IFDIR == 16384
ONE_DAY_SECS == 86400
\* Utc::now().timestamp()
Now == 1000000000
\* AgeCfg::default
AgeYoung == 60
AgeOld == 600

\* u8::is_ascii_whitespace
AsciiWhitespace == Whitespace \ {LF + 1}

\* trim_ascii
RECURSIVE trim_ascii(_)
trim_ascii(str) ==
    IF str # <<>> /\ Head(str) \in AsciiWhitespace THEN trim_ascii(Tail(str))
    ELSE IF str # <<>> /\ str[Len(str)] \in AsciiWhitespace
         THEN trim_ascii(SubSeq(str, 1, Len(str) - 1))
    ELSE str

\* the digits a text starts with
RECURSIVE digits_prefix(_)
digits_prefix(str) ==
    IF str # <<>> /\ Head(str) \in DIGIT0..(DIGIT0 + 9)
    THEN <<Head(str)>> \o digits_prefix(Tail(str)) ELSE <<>>

\* atoi::atoi::<T>(s).unwrap_or_default(): an optional sign and the digits
\* that follow it; zero where there is no number of the type
atoi_or_default(str, signed) ==
    IF str # <<>> /\ str[1] = DASH
    THEN (IF signed THEN 0 - digits_value(digits_prefix(Tail(str)), 0) ELSE 0)
    ELSE IF str # <<>> /\ str[1] = PLUS THEN digits_value(digits_prefix(Tail(str)), 0)
    ELSE digits_value(digits_prefix(str), 0)

\* record.get(i): the field, None where the record is too short
record_get(record, i) == IF i + 1 <= Len(record) THEN Some(record[i + 1]) ELSE None

unwrap_or(opt, default) == IF opt = None THEN default ELSE opt[1]

\* parse_int::<T>
parse_int(b, signed) == atoi_or_default(trim_ascii(unwrap_or(b, <<DIGIT0>>)), signed)

\* sanitize_mtime
sanitize_mtime(now_ts, mtime_ts) ==
    IF mtime_ts > now_ts + ONE_DAY_SECS THEN 0 ELSE mtime_ts

\* i64 division, rounding toward zero
trunc_div(a, b) == IF a < 0 THEN 0 - ((0 - a) \div b) ELSE a \div b

\* the thresholds taken as inclusive upper ends
age_bucket_inclusive(now_ts, mtime_ts, cfg) ==
    IF mtime_ts <= 0 THEN 2
    ELSE IF (now_ts - mtime_ts) \div ONE_DAY_SECS <= cfg.young THEN 0
    ELSE IF (now_ts - mtime_ts) \div ONE_DAY_SECS <= cfg.old THEN 1
    ELSE 2

\* struct AgeCfg: the two thresholds, in days
AgeCfg(young, old) == [young |-> young, old |-> old]

\* age_bucket; now_ts.saturating_sub(mtime_ts) is the difference, which does
\* not leave the i64 for a clock that is not negative and an mtime above 0
age_bucket(now_ts, mtime_ts, cfg) ==
    IF mtime_ts <= 0 THEN 2
    ELSE IF trunc_div(now_ts - mtime_ts, ONE_DAY_SECS) < cfg.young THEN 0
    ELSE IF trunc_div(now_ts - mtime_ts, ONE_DAY_SECS) < cfg.old THEN 1
    ELSE 2

\* resolve_user: the name getpwuid gives, "UNK" where it gives none
resolve_user(uid) ==
    IF uid = 0 THEN "root" ELSE IF uid = 1000 THEN "alice" ELSE "UNK"

\* the last position of a "/" in the path, 0 where there is none
rposition_slash(p) ==
    IF \E i \in 1..Len(p) : p[i] = SLASH
    THEN CHOOSE i \in 1..Len(p) : p[i] = SLASH /\ \A j \in (i + 1)..Len(p) : p[j] # SLASH
    ELSE 0

RECURSIVE pop_slashes(_)
pop_slashes(folder) ==
    IF Len(folder) > 1 /\ folder[Len(folder)] = SLASH
    THEN pop_slashes(SubSeq(folder, 1, Len(folder) - 1)) ELSE folder

\* the loop without its filter of the empty segments
RECURSIVE ancestors_from_unfiltered(_, _)
ancestors_from_unfiltered(segments, current_path) ==
    IF segments = <<>> THEN <<>>
    ELSE LET next == (IF Len(current_path) > 1 THEN current_path \o <<SLASH>>
                      ELSE current_path) \o Head(segments)
         IN  <<next>> \o ancestors_from_unfiltered(Tail(segments), next)

\* the loop of get_folder_ancestors over the segments
RECURSIVE ancestors_from(_, _)
ancestors_from(segments, current_path) ==
    IF segments = <<>> THEN <<>>
    ELSE IF Head(segments) = <<>> THEN ancestors_from(Tail(segments), current_path)
    ELSE LET next == (IF Len(current_path) > 1 THEN current_path \o <<SLASH>>
                      ELSE current_path) \o Head(segments)
         IN  <<next>> \o ancestors_from(Tail(segments), next)

get_folder_ancestors(path) ==
    LET normalized == [i \in 1..Len(path) |->
                          IF path[i] = BACKSLASH THEN SLASH ELSE path[i]]
        folder == pop_slashes(SubSeq(normalized, 1, rposition_slash(normalized) - 1))
        trimmed == IF folder # <<>> /\ folder[1] = SLASH THEN Tail(folder) ELSE folder
    IN  IF rposition_slash(normalized) <= 1 \/ trimmed = <<>> THEN <<<<SLASH>>>>
        ELSE <<<<SLASH>>>> \o ancestors_from(split_on(trimmed, SLASH, <<>>), <<SLASH>>)

\* every sighting taken for the first
first_sighting_always(seen_inodes, inode_bytes) == TRUE

\* seen_inodes.insert(inode_bytes): true when the key was not in the set
first_sighting(seen_inodes, inode_bytes) == inode_bytes \notin seen_inodes

\* the entries of the keys of a row started anew instead of added to
update_entries_replacing(agg, keys, size, disk, linked, atime, mtime) ==
    [k \in DOMAIN agg \cup keys |->
        IF k \in keys THEN update(UserStatsDefault, size, disk, linked, atime, mtime)
        ELSE agg[k]]

\* aggregated_data.entry(key).or_default().update(...) for the keys of a row
update_entries(agg, keys, size, disk, linked, atime, mtime) ==
    [k \in DOMAIN agg \cup keys |->
        IF k \in keys
        THEN update(IF k \in DOMAIN agg THEN agg[k] ELSE UserStatsDefault,
                    size, disk, linked, atime, mtime)
        ELSE agg[k]]

\* the body of the loop, from the inode to the update of the entries
sum_record(st, record) ==
    LET inode_bytes == unwrap_or(record_get(record, 0), <<>>)
        mode == parse_int(record_get(record, 5), FALSE)
        is_dir == ((mode \div 4096) % 16) * 4096 = S_IFDIR
        sanitized_atime == IF is_dir THEN 0
                           ELSE sanitize_mtime(Now, parse_int(record_get(record, 1), TRUE))
        sanitized_mtime == sanitize_mtime(Now, parse_int(record_get(record, 2), TRUE))
        user == resolve_user(parse_int(record_get(record, 3), FALSE))
        file_size == parse_int(record_get(record, 6), FALSE)
        raw_disk == parse_int(record_get(record, 7), FALSE)
        first == first_sighting(st.seen_inodes, inode_bytes)
        path_bytes == unwrap_or(record_get(record, 8), <<>>)
        ancestors == get_folder_ancestors(path_bytes)
    IN  [index |-> st.index + 1,
         seen_inodes |-> st.seen_inodes \cup {inode_bytes},
         aggregated_data |->
            IF user = "" \/ path_bytes = <<>> THEN st.aggregated_data
            ELSE update_entries(st.aggregated_data,
                     {<<ancestors[i], user,
                        age_bucket(Now, sanitized_mtime, AgeCfg(AgeYoung, AgeOld))>> :
                         i \in 1..Len(ancestors)},
                     u64(file_size),
                     u64(IF first THEN raw_disk ELSE 0),
                     u64(IF first THEN 0 ELSE raw_disk),
                     sanitized_atime, sanitized_mtime)]

(***************************************************************************)
(* Runs of the aggregator on short inputs.                                 *)
(***************************************************************************)
MaxRecs == 3

Rec(inode, mtime, uid, mode, size, disk, path) ==
    <<inode, push_i64(mtime), push_i64(mtime), push_u32(uid), push_u32(uid),
      push_u32(mode), push_u64(size), push_u64(disk), path>>

InodeA == <<DIGIT0 + 1, DASH, DIGIT0 + 2>>
InodeB == <<DIGIT0 + 3, DASH, DIGIT0 + 4>>

P(dir, file) == <<SLASH>> \o Bytes(dir) \o <<SLASH>> \o Bytes(file)

RecSamples ==
    {Rec(InodeA, Now - ONE_DAY_SECS, 0, 33188, 1000, 1000, P("a", "x")),
     Rec(InodeA, Now - ONE_DAY_SECS, 0, 33188, 1000, 1000, P("a", "y")),
     Rec(InodeA, Now - ONE_DAY_SECS, 0, 33188, 1000, 1000, P("b", "z")),
     Rec(InodeB, Now - 700 * ONE_DAY_SECS, 1000, 33188, 5, 512, P("a", "w")),
     Rec(InodeB, Now - ONE_DAY_SECS, 7, 16877, 0, 4096, P("a", "b") \o P("c", "d")),
     Rec(InodeA, Now - ONE_DAY_SECS, 0, 33188, 1000, 1000, <<>>),
     <<InodeB, <<DIGIT0>>, <<DIGIT0>>>>}

InitSum ==
    /\ ScanIdle
    /\ op = "dusum"
    /\ res = <<>>
    /\ arg \in SeqsUpTo(RecSamples, MaxRecs)

\* main up to the loop: nothing seen, nothing aggregated
SumStart ==
    /\ op = "dusum"
    /\ res = <<>>
    /\ res' = <<[index |-> 0, seen_inodes |-> {}, aggregated_data |-> <<>>]>>
    /\ UNCHANGED <<op, arg, scanvars>>

\* one turn of the loop
SumRecord ==
    /\ op = "dusum"
    /\ res # <<>>
    /\ res[1].index < Len(arg)
    /\ res' = <<sum_record(res[1], arg[res[1].index + 1])>>
    /\ UNCHANGED <<op, arg, scanvars>>

SpecSum == InitSum /\ [][SumStart \/ SumRecord]_vars

Field(rec, n) == IF n <= Len(rec) THEN rec[n] ELSE <<>>

\* the keys (folder, owner, bucket) a row belongs to
KeysOf(rec) ==
    LET ancestors == get_folder_ancestors(Field(rec, 9))
        user == resolve_user(parse_int(record_get(rec, 3), FALSE))
        bucket == age_bucket(Now, sanitize_mtime(Now, parse_int(record_get(rec, 2), TRUE)),
                            AgeCfg(AgeYoung, AgeOld))
    IN  {<<ancestors[i], user, bucket>> : i \in 1..Len(ancestors)}

RowSize(rec) == parse_int(record_get(rec, 6), FALSE)
RowDisk(rec) == parse_int(record_get(rec, 7), FALSE)

\* no earlier row of the input carries the inode key of row i
FirstCarrier(i) == \A j \in 1..(i - 1) : Field(arg[j], 1) # Field(arg[i], 1)

\* the row has a path and an owner, so that it is aggregated
Counted(i) ==
    /\ Field(arg[i], 9) # <<>>
    /\ resolve_user(parse_int(record_get(arg[i], 3), FALSE)) # ""

\* the four counters of key k after n rows, where each row taken into account
\* gives 1 to file_count and SIZE to file_size, DISK to disk_size if it is the
\* first carrier of its inode and DISK to linked_size if it is not
Counters(k, n, every_row) ==
    LET src == [i \in 1..n |-> (every_row \/ Counted(i)) /\ k \in KeysOf(arg[i])]
    IN  <<u64(SumSeq([i \in 1..n |-> IF src[i] THEN 1 ELSE 0])),
          u64(SumSeq([i \in 1..n |-> IF src[i] THEN RowSize(arg[i]) ELSE 0])),
          u64(SumSeq([i \in 1..n |->
                        IF src[i] /\ FirstCarrier(i) THEN RowDisk(arg[i]) ELSE 0])),
          u64(SumSeq([i \in 1..n |->
                        IF src[i] /\ ~FirstCarrier(i) THEN RowDisk(arg[i]) ELSE 0]))>>

CountersOf(s) == <<s.file_count, s.file_size, s.disk_size, s.linked_size>>

KeysUpTo(n, every_row) ==
    UNION {KeysOf(arg[i]) : i \in {j \in 1..n : every_row \/ Counted(j)}}

\* claim C19, as stated: over any sequence of input rows, every row gives 1
\* to file_count and SIZE to file_size, the first row carrying an inode key
\* gives its DISK to disk_size and 0 to linked_size, and every later row with
\* that key gives 0 to disk_size and its DISK to linked_size.
C19_EveryRow ==
    (op = "dusum" /\ res # <<>>)
       => \A k \in KeysUpTo(res[1].index, TRUE) :
             /\ k \in DOMAIN res[1].aggregated_data
             /\ CountersOf(res[1].aggregated_data[k]) = Counters(k, res[1].index, TRUE)

\* claim C19, amended: the rows that are aggregated are those with a path and
\* an owner; each of them gives 1 to file_count and SIZE to file_size, its
\* DISK to disk_size if no earlier row of the input (aggregated or not)
\* carries its inode key, and its DISK to linked_size otherwise. A row
\* without a path gives nothing, yet marks its inode as seen.
C19_FirstSeen ==
    (op = "dusum" /\ res # <<>>)
       => /\ DOMAIN res[1].aggregated_data = KeysUpTo(res[1].index, FALSE)
          /\ res[1].seen_inodes = {Field(arg[i], 1) : i \in 1..res[1].index}
          /\ \A k \in DOMAIN res[1].aggregated_data :
                CountersOf(res[1].aggregated_data[k]) = Counters(k, res[1].index, FALSE)

\* two rows of one inode with size 1000 and disk 1000, of two files of the
\* same folder, owner and bucket, have been read
C19_Witness ==
    /\ op = "dusum" /\ res # <<>>
    /\ Len(arg) = 2 /\ res[1].index = 2
    /\ Field(arg[1], 1) = Field(arg[2], 1)
    /\ Field(arg[1], 9) = P("a", "x") /\ Field(arg[2], 9) = P("a", "y")
    /\ CountersOf(res[1].aggregated_data[<<<<SLASH>> \o Bytes("a"), "root", 0>>])
         = <<u64(2), u64(2000), u64(1000), u64(1000)>>

(***************************************************************************)
(* The functions of the aggregator taken one at a time                     *)
(* (src/rs/src/bin/dusum/stats.rs, src/rs/src/bin/dusum/aggregate.rs):     *)
(* one call of age_bucket, of sanitize_mtime or of get_folder_ancestors.   *)
(***************************************************************************)
\* the seconds past a whole number of days that are tried, besides the last
\* second of the day
MaxSecs == 1

\* the longest path of the enumerated ones
MaxDepth == 5

\* thresholds as parse_age_pair admits them: positive and increasing
AgeCfgSamples ==
    {AgeCfg(y, o) : <<y, o>> \in {c \in {1, 2, AgeYoung, AgeOld} \X {1, 2, AgeYoung, AgeOld} :
                                     c[1] < c[2]}}

\* a clock of today and a clock of the hundredth day after the epoch, for
\* which the thresholds reach before the epoch
NowSamples == {Now, 100 * ONE_DAY_SECS + 5}

\* mtimes around every threshold, around the clock and a day after it, and
\* around the epoch
MtimeSamples(now, cfg) ==
    {now - k * ONE_DAY_SECS - r :
        k \in {0, cfg.young - 1, cfg.young, cfg.old - 1, cfg.old, cfg.old + 1},
        r \in (0..MaxSecs) \cup {ONE_DAY_SECS - 1}}
    \cup {now + ONE_DAY_SECS + d : d \in (0 - MaxSecs)..MaxSecs}
    \cup ((0 - MaxSecs)..MaxSecs)

\* "/a//b///c//file.txt"
PathExample ==
    Concat(<<<<SLASH>>, Bytes("a"), <<SLASH, SLASH>>, Bytes("b"),
             <<SLASH, SLASH, SLASH>>, Bytes("c"), <<SLASH, SLASH>>,
             Bytes("file"), <<SLASH - 1>>, Bytes("txt")>>)

AncestorPaths ==
    SeqsUpTo({Bytes("a")[1], Bytes("b")[1], SLASH, BACKSLASH}, MaxDepth)
       \cup {PathExample}

InitFns ==
    /\ ScanIdle
    /\ res = <<>>
    /\ \/ /\ op \in {"age_bucket", "sanitize_mtime"}
          /\ \E now \in NowSamples, cfg \in AgeCfgSamples :
                \E mtime \in MtimeSamples(now, cfg) :
                   arg = [now |-> now, mtime |-> mtime, cfg |-> cfg]
       \/ /\ op = "get_folder_ancestors"
          /\ arg \in AncestorPaths

AgeBucket ==
    /\ op = "age_bucket"
    /\ res = <<>>
    /\ res' = <<age_bucket(arg.now, arg.mtime, arg.cfg)>>
    /\ UNCHANGED <<op, arg, scanvars>>

SanitizeMtime ==
    /\ op = "sanitize_mtime"
    /\ res = <<>>
    /\ res' = <<sanitize_mtime(arg.now, arg.mtime)>>
    /\ UNCHANGED <<op, arg, scanvars>>

FolderAncestors ==
    /\ op = "get_folder_ancestors"
    /\ res = <<>>
    /\ res' = <<get_folder_ancestors(arg)>>
    /\ UNCHANGED <<op, arg, scanvars>>

SpecFns == InitFns /\ [][AgeBucket \/ SanitizeMtime \/ FolderAncestors]_vars

\* the age in whole days, floor((now - mtime) / 86400)
AgeDays == (arg.now - arg.mtime) \div ONE_DAY_SECS

\* claim C21: age_bucket returns 2 for every mtime <= 0 and a value of
\* {0, 1, 2} always; for an mtime above 0, with the age in whole days
\* floor((now - mtime) / 86400), it returns 0 at age young - 1, 1 at age young,
\* 1 at age old - 1 and 2 at age old.  sanitize_mtime returns now + 86400
\* unchanged and returns 0 for now + 86401.
C21_AgeBoundaries ==
    /\ (op = "age_bucket" /\ res # <<>>)
          => /\ res[1] \in {0, 1, 2}
             /\ arg.mtime <= 0 => res[1] = 2
             /\ arg.mtime > 0 =>
                   /\ AgeDays = arg.cfg.young - 1 => res[1] = 0
                   /\ AgeDays = arg.cfg.young => res[1] = 1
                   /\ AgeDays = arg.cfg.old - 1 => res[1] = 1
                   /\ AgeDays = arg.cfg.old => res[1] = 2
    /\ (op = "sanitize_mtime" /\ res # <<>>)
          => /\ arg.mtime = arg.now + ONE_DAY_SECS => res[1] = arg.mtime
             /\ arg.mtime = arg.now + ONE_DAY_SECS + 1 => res[1] = 0

\* a file whose age is exactly the default young threshold, in its last
\* second, has been put in bucket 1
C21_Witness ==
    /\ op = "age_bucket" /\ res = <<1>>
    /\ arg.cfg = AgeCfg(AgeYoung, AgeOld) /\ arg.now = Now
    /\ arg.mtime = Now - AgeYoung * ONE_DAY_SECS - (ONE_DAY_SECS - 1)

\* the path with every backslash read as a slash
Slashed(p) == [i \in 1..Len(p) |-> IF p[i] = BACKSLASH THEN SLASH ELSE p[i]]

\* the folder a path lies in, as a key: what stands before the last separator
\* of the path, with one slash in front, one slash for every run of
\* separators inside and none at the end
ParentKey(p) ==
    LET n == Slashed(p)
        last == IF \E i \in 1..Len(n) : n[i] = SLASH
                THEN CHOOSE i \in 1..Len(n) :
                        n[i] = SLASH /\ \A j \in (i + 1)..Len(n) : n[j] # SLASH
                ELSE 1
        before == SubSeq(n, 1, last - 1)
        keep == {i \in 1..Len(before) :
                   before[i] # SLASH \/ (i < Len(before) /\ before[i + 1] # SLASH)}
        nth(k) == CHOOSE i \in keep : Cardinality({j \in keep : j < i}) = k - 1
        kept == [k \in 1..Cardinality(keep) |-> before[nth(k)]]
    IN  IF kept = <<>> THEN <<SLASH>>
        ELSE IF kept[1] = SLASH THEN kept
        ELSE <<SLASH>> \o kept

\* claim C22: get_folder_ancestors(P) starts with "/"; each further element is
\* the one before it extended by one segment that is not empty and has no
\* slash; no element but "/" ends in a slash; no element occurs twice; the
\* last element is the folder P lies in; a path with no separator, or with one
\* at its start only, gives ["/"], and "/a//b///c//file.txt" gives
\* ["/", "/a", "/a/b", "/a/b/c"].
C22_AncestorChain ==
    (op = "get_folder_ancestors" /\ res # <<>>)
       => LET A == res[1]
          IN  /\ Len(A) >= 1 /\ A[1] = <<SLASH>>
              /\ \A i \in 2..Len(A) :
                    LET base == IF i = 2 THEN <<SLASH>> ELSE A[i - 1] \o <<SLASH>>
                    IN  /\ Len(A[i]) > Len(base)
                        /\ SubSeq(A[i], 1, Len(base)) = base
                        /\ \A j \in (Len(base) + 1)..Len(A[i]) : A[i][j] # SLASH
              /\ \A i \in 2..Len(A) : A[i][Len(A[i])] # SLASH
              /\ \A i, j \in 1..Len(A) : i # j => A[i] # A[j]
              /\ A[Len(A)] = ParentKey(arg)
              /\ (\A i \in 2..Len(arg) : Slashed(arg)[i] # SLASH) => A = <<<<SLASH>>>>
              /\ arg = PathExample
                    => A = <<<<SLASH>>, <<SLASH>> \o Bytes("a"),
                             <<SLASH>> \o Bytes("a") \o <<SLASH>> \o Bytes("b"),
                             P("a", "b") \o <<SLASH>> \o Bytes("c")>>

\* the ancestors of a path with separators of both kinds and a run of them,
\* a backslash, "a", two slashes and "b", have been listed: "/" and "/a"
C22_Witness ==
    /\ op = "get_folder_ancestors"
    /\ arg = <<BACKSLASH>> \o Bytes("a") \o <<SLASH, SLASH>> \o Bytes("b")
    /\ res = <<<<<<SLASH>>, <<SLASH>> \o Bytes("a")>>>>

\* the folder a folder key other than "/" lies in: the key up to its last
\* slash, "/" for a key of one segment
ParentOf(f) ==
    LET last == CHOOSE i \in 1..Len(f) :
                   f[i] = SLASH /\ \A j \in (i + 1)..Len(f) : f[j] # SLASH
    IN  IF last = 1 THEN <<SLASH>> ELSE SubSeq(f, 1, last - 1)

\* the files counted at "/" for one owner and one bucket
RootCount(agg, user, bucket) ==
    LET k == <<<<SLASH>>, user, bucket>>
    IN  IF k \in DOMAIN agg THEN agg[k].file_count ELSE u64(0)

\* claim C29: after any number of rows, every key (F, owner, bucket) of the
\* map with F other than "/" has the key (parent of F, owner, bucket) in the
\* map too, with each of file_count, file_size, disk_size, linked_size,
\* latest_atime and latest_mtime at least that of F; and the file_count of
\* "/", summed over the owners and the buckets, is the number of rows that
\* were aggregated.
C29_Hierarchy ==
    (op = "dusum" /\ res # <<>>)
       => LET agg == res[1].aggregated_data
              owners == {k[2] : k \in DOMAIN agg}
              counts == {<<u, b, RootCount(agg, u, b)>> : u \in owners, b \in 0..2}
          IN  /\ \A k \in DOMAIN agg :
                    k[1] # <<SLASH>>
                       => LET pk == <<ParentOf(k[1]), k[2], k[3]>>
                          IN  /\ pk \in DOMAIN agg
                              /\ u64_le(agg[k].file_count, agg[pk].file_count)
                              /\ u64_le(agg[k].file_size, agg[pk].file_size)
                              /\ u64_le(agg[k].disk_size, agg[pk].disk_size)
                              /\ u64_le(agg[k].linked_size, agg[pk].linked_size)
                              /\ agg[k].latest_atime <= agg[pk].latest_atime
                              /\ agg[k].latest_mtime <= agg[pk].latest_mtime
              /\ \A c \in counts : c[3] = u64(c[3][1])
              /\ Cardinality({i \in 1..res[1].index : Counted(i)})
                    = Cardinality(UNION {{<<c, n>> : n \in 1..c[3][1]} : c \in counts})

\* three rows have been aggregated, of two files of "/a" and of the directory
\* "/a/b/c/d" of another owner: "/a/b/c" has an entry, and "/" counts two
\* files of root and one of the unknown owner
C29_Witness ==
    /\ op = "dusum" /\ res # <<>>
    /\ Len(arg) = 3 /\ res[1].index = 3
    /\ <<P("a", "b") \o <<SLASH>> \o Bytes("c"), "UNK", 0>> \in DOMAIN res[1].aggregated_data
    /\ RootCount(res[1].aggregated_data, "root", 0) = u64(2)
    /\ RootCount(res[1].aggregated_data, "UNK", 0) = u64(1)

\* the same conversion to the compressed form is run twice
Retry == op = "duzip" /\ Len(arg.calls) = 2 /\ arg.calls[2] = arg.calls[1]

\* claim C30: csv_to_zst creates its output before it reads the header and
\* the rows: a run that is not refused for an existing output and fails on
\* the header or on a row leaves the file it created, and the same run made
\* again is refused because the output exists, and changes nothing.
C30_LeftoverOutput ==
    (Retry /\ res # <<>>)
       => LET out == OutPath(arg.calls[1])
          IN  /\ res[1].status # "Output file already exists"
              /\ res[1].status # "ok"
                    => /\ arg.fs[out] = None
                       /\ res[1].fs[out] # None
                       /\ \A n \in Names \ {out} : res[1].fs[n] = arg.fs[n]
              /\ Len(res) = 2
                    => /\ res[2].status = "Output file already exists"
                       /\ res[2].fs = res[1].fs

\* a conversion has failed on the second row, of ten fields, and the run
\* made again has been refused for the rows.zst the first one left
C30_Witness ==
    /\ Retry /\ Len(res) = 2
    /\ arg.calls[1].output = None
    /\ res[1].status = "must have 9 fields"
    /\ res[1].fs[RowsZst] # None
    /\ res[2].status = "Output file already exists"

(***************************************************************************)
(* The rows of a shard, step by step.                                      *)
(***************************************************************************)
\* the rows worker t produces in the step that is taken: the row of the
\* directory when it enters the Dir arm of a directory it can stat, the rows
\* of the items idx[t] .. idx'[t] - 1 of its Files task, in the order of the
\* items, when it runs the loop of the Files arm, and none in any other step
ProducedBy(t) ==
    IF pc[t] = "task" /\ cur[t].type = "Dir" /\ pc'[t] \in {"enum", "dir_end"}
    THEN stat_row(cur[t].path)
    ELSE IF pc[t] = "task" /\ cur[t].type = "Files" /\ idx'[t] > idx[t]
    THEN [k \in 1..(idx'[t] - idx[t]) |->
             Row(join(cur[t].path, cur[t].items[idx[t] + k - 1].name),
                 cur[t].items[idx[t] + k - 1].blocks)]
    ELSE <<>>

\* claim C27: in every step, the rows a worker produces go behind those it
\* holds in its buffer, and what reaches its shard is its own buffer with
\* those rows, whole and in that order, behind what the shard holds already
\* (or nothing, when a write fails; a failed final flush may leave the shard
\* without rows).  The rows of a Files task are produced in the order of its
\* items by steps of the worker that holds the task, which produces no row
\* of another task in between; no step before the merge puts anything else
\* in a shard.
C27_ShardOrder ==
    [][mpc # "merge" => \A t \in Tids :
          \/ /\ buf'[t] = buf[t] \o ProducedBy(t)
             /\ shard'[t].rows = shard[t].rows
          \/ /\ buf'[t] = <<>>
             /\ shard'[t].rows \in {shard[t].rows \o buf[t] \o ProducedBy(t), shard[t].rows}
          \/ /\ pc[t] = "task" /\ cur[t].type = "Shutdown" /\ pc'[t] = "done"
             /\ buf'[t] = <<>>
             /\ shard'[t].rows = <<>>]_vars

\* a worker has written its buffer twice in the middle of the Files task
\* of FILE_CHUNK files and is still in the loop over its items
C27_Witness ==
    /\ scen = 4
    /\ \E t \in Tids :
          /\ pc[t] = "task" /\ cur[t].type = "Files"
          /\ Len(cur[t].items) = FILE_CHUNK
          /\ idx[t] <= FILE_CHUNK
          /\ Len(shard[t].rows) = 2 * (FLUSH_BYTES \div Sc.row_bytes)

\* the rows worker t has counted in stats.files that are neither in its
\* shard nor in its buffer
Lost(t) == stats[t].files - Len(shard[t].rows) - Len(buf[t])

\* the step taken is one of worker t, in the Dir or the Files arm, in which
\* write_all of the full buffer fails
WriteFails(t) ==
    /\ pc[t] = "task" /\ cur[t].type \in {"Dir", "Files"}
    /\ faults' = faults - 1
    /\ stats'[t] # stats[t]

\* claim C28: a step in which write_all of the full buffer fails adds one to
\* the worker's error counter (besides the error of a directory that cannot
\* be stat-ed), empties the buffer without anything reaching the shard, and
\* leaves the worker in its loop with its task and the in-flight counter as
\* it was, the decrement of the task still to come; from then on the shard
\* has fewer rows than stats.files counts, and rows once lost are never
\* written; and the scan still ends: main returns and every worker that
\* started has returned.
C28_WriteFailure ==
    /\ [][\A t \in Tids :
             /\ WriteFails(t)
                   => /\ stats'[t].errors
                           = stats[t].errors + 1
                               + (IF cur[t].type = "Dir" /\ stat_row(cur[t].path) = None
                                  THEN 1 ELSE 0)
                      /\ buf'[t] = <<>>
                      /\ shard'[t] = shard[t]
                      /\ pc'[t] \in {"task", "enum", "dir_end"}
                      /\ cur'[t] = cur[t]
                      /\ inflight' = inflight
                      /\ Len(shard'[t].rows) < stats'[t].files
             /\ (mpc # "merge" /\ pc[t] # "start") => Lost(t)' >= Lost(t)]_vars
    /\ (\E t \in Tids : Lost(t) > 0)
          ~> (mpc = "done" /\ \A t \in StartedOk : pc[t] = "done")

\* a worker whose write of the full buffer failed in the middle of the
\* Files task of FILE_CHUNK files has gone on, taken the next task and
\* decremented the counter for both
C28_Witness ==
    /\ scen = 4
    /\ \E t \in Tids :
          /\ stats[t].errors = 1
          /\ Lost(t) = FLUSH_BYTES \div Sc.row_bytes
          /\ stats[t].files = FILE_CHUNK + ExtraFiles + 1
          /\ pc[t] = "recv"
    /\ inflight = 0

(***************************************************************************)
(* The index of the API server (src/rs/src/bin/duapi/index.rs): the trie   *)
(* of path components, the owners by folder key and the statistics by      *)
(* (folder key, owner, bucket).  Paths and names are byte strings.  The     *)
(* trie is the map from the component sequence of a node to its users; the *)
(* root is the empty sequence.                                             *)
(***************************************************************************)
\* normalize_path: every backslash becomes a slash, and a path that is not
\* empty and has no slash in front gets one (the branch of a Windows build
\* for drive letters does the same)
normalize_path(path) ==
    LET n == [i \in 1..Len(path) |-> IF path[i] = BACKSLASH THEN SLASH ELSE path[i]]
    IN  IF n # <<>> /\ n[1] # SLASH THEN <<SLASH>> \o n ELSE n

\* str::trim_end_matches(ch): every ch at the end is taken off
trim_end_matches(str, ch) ==
    LET others == {i \in 1..Len(str) : str[i] # ch}
    IN  SubSeq(str, 1, IF others = {} THEN 0
                       ELSE CHOOSE i \in others : \A j \in others : j <= i)

\* canonical_key
canonical_key(path) ==
    LET n == normalize_path(path)
    IN  IF Len(n) > 1 THEN trim_end_matches(n, SLASH) ELSE n

\* path_to_components
path_to_components(path) ==
    SelectSeq(split_on(normalize_path(path), SLASH, <<>>), LAMBDA s : s # <<>>)

\* InMemoryFSIndex::new
IndexNew ==
    [root |-> (<<>> :> {}), total_entries |-> 0, per_user_age |-> <<>>,
     users_by_path |-> <<>>]

\* insert_path: every node on the way is created where it is missing and
\* gets the user
insert_path(root, path, username) ==
    LET components == path_to_components(path)
        visited == {SubSeq(components, 1, k) : k \in 1..Len(components)}
    IN  [c \in DOMAIN root \cup visited |->
            (IF c \in DOMAIN root THEN root[c] ELSE {})
               \cup (IF c \in visited THEN {username} ELSE {})]

\* "record.get(i).unwrap_or("0").parse().unwrap_or(0)" for a u64 or an i64
parse_or_zero(text, signed) ==
    unwrap_or(IF signed THEN parse_signed(text) ELSE parse_unsigned(text), 0)

\* the body of the loop of load_from_csv for one record of the rollup
load_record(ix, record) ==
    IF Len(record) < 9 THEN ix
    ELSE LET path_str == record[1]
             username == trim(record[2])
             age == IF parse_or_zero(record[3], FALSE) <= 255
                    THEN parse_or_zero(record[3], FALSE) ELSE 0
             pkey == canonical_key(path_str)
             key == <<pkey, username, age>>
             entry == IF key \in DOMAIN ix.per_user_age THEN ix.per_user_age[key]
                      ELSE [file_count |-> u64(0), file_size |-> u64(0),
                            disk_bytes |-> u64(0), linked_size |-> u64(0),
                            latest_atime |-> 0, latest_mtime |-> 0]
             num(i) == u64(parse_or_zero(record[i], FALSE))
             latest(old, i) == IF parse_or_zero(record[i], TRUE) > old
                               THEN parse_or_zero(record[i], TRUE) ELSE old
         IN  IF path_str = <<>> \/ username = <<>> THEN ix
             ELSE [root |-> insert_path(ix.root, path_str, username),
                   total_entries |-> ix.total_entries + 1,
                   users_by_path |->
                      [k \in DOMAIN ix.users_by_path \cup {pkey} |->
                          (IF k \in DOMAIN ix.users_by_path THEN ix.users_by_path[k]
                           ELSE {}) \cup (IF k = pkey THEN {username} ELSE {})],
                   per_user_age |->
                      [k \in DOMAIN ix.per_user_age \cup {key} |->
                          IF k = key
                          THEN [file_count |-> saturating_add(entry.file_count, num(4)),
                                file_size |-> saturating_add(entry.file_size, num(5)),
                                disk_bytes |-> saturating_add(entry.disk_bytes, num(6)),
                                linked_size |-> saturating_add(entry.linked_size, num(7)),
                                latest_atime |-> latest(entry.latest_atime, 8),
                                latest_mtime |-> latest(entry.latest_mtime, 9)]
                          ELSE ix.per_user_age[k]]]

\* load_from_csv: the records in the order of the file
RECURSIVE load_from_csv(_, _)
load_from_csv(ix, records) ==
    IF records = <<>> THEN ix
    ELSE load_from_csv(load_record(ix, Head(records)), Tail(records))

\* the elements of a set of FolderOut in the order of their paths
RECURSIVE sort_by_path(_)
sort_by_path(items) ==
    IF items = {} THEN <<>>
    ELSE LET first == CHOOSE x \in items :
                         \A y \in items : y = x \/ lex_less(x.path, y.path)
         IN  <<first>> \o sort_by_path(items \ {first})

\* the path list_children gives the child child_name of the directory whose
\* normalized path is base_path
full_path(base_path, child_name) ==
    IF base_path = <<>> \/ base_path = <<SLASH>> THEN <<SLASH>> \o child_name
    ELSE trim_end_matches(base_path, SLASH) \o <<SLASH>> \o child_name

\* every owner of the folder, whatever the filter
users_to_show_unfiltered(ix, pkey, user_filter) == ix.users_by_path[pkey]

\* the owners of the folder pkey that pass the filter: all of them when the
\* filter is empty
users_to_show(ix, pkey, user_filter) ==
    IF user_filter = <<>> THEN ix.users_by_path[pkey]
    ELSE {u \in ix.users_by_path[pkey] :
             \E i \in 1..Len(user_filter) : user_filter[i] = u}

\* "if let Some(a) = age_filter { vec![a] } else { vec![0, 1, 2] }"
ages_to_consider(age_filter) == IF age_filter # None THEN {age_filter[1]} ELSE {0, 1, 2}

\* the buckets of one owner: the considered ages that have statistics, by
\* "a.to_string()"
age_map(ix, pkey, uname, age_filter) ==
    LET found == {a \in ages_to_consider(age_filter) :
                     <<pkey, uname, a>> \in DOMAIN ix.per_user_age}
    IN  [s \in {ToString(a) : a \in found} |->
            LET st == ix.per_user_age[<<pkey, uname,
                                        CHOOSE a \in found : ToString(a) = s>>]
            IN  [count |-> st.file_count, size |-> st.file_size,
                 disk |-> st.disk_bytes, linked |-> st.linked_size,
                 atime |-> st.latest_atime, mtime |-> st.latest_mtime]]

\* every shown owner kept, with or without buckets
users_map_keeping_empty(ix, pkey, user_filter, age_filter) ==
    [u \in users_to_show(ix, pkey, user_filter) |-> age_map(ix, pkey, u, age_filter)]

\* the owners of the folder: "if !age_map.is_empty() { users_map.insert(..) }"
users_map(ix, pkey, user_filter, age_filter) ==
    [u \in {v \in users_to_show(ix, pkey, user_filter) :
               DOMAIN age_map(ix, pkey, v, age_filter) # {}} |->
        age_map(ix, pkey, u, age_filter)]

\* list_children; user_filter is a sequence of names, age_filter an Option.
\* A child without owners, without a shown owner or without a shown bucket
\* is skipped.
list_children(ix, dir_path, user_filter, age_filter) ==
    LET components == path_to_components(dir_path)
        base_path == normalize_path(dir_path)
        names == {c[Len(c)] : c \in {d \in DOMAIN ix.root :
                                        /\ Len(d) = Len(components) + 1
                                        /\ SubSeq(d, 1, Len(components)) = components}}
        path_of(child_name) == full_path(base_path, child_name)
        pkey_of(child_name) == canonical_key(path_of(child_name))
        shown == {n \in names :
                     /\ pkey_of(n) \in DOMAIN ix.users_by_path
                     /\ users_to_show(ix, pkey_of(n), user_filter) # {}
                     /\ DOMAIN users_map(ix, pkey_of(n), user_filter, age_filter) # {}}
    IN  IF ~(\A k \in 0..Len(components) : SubSeq(components, 1, k) \in DOMAIN ix.root)
        THEN Err("Directory not found")
        ELSE Ok(sort_by_path(
                 {[path |-> path_of(n),
                   users |-> users_map(ix, pkey_of(n), user_filter, age_filter)] :
                     n \in shown}))

(***************************************************************************)
(* The handlers of the folder and the file endpoint                        *)
(* (src/rs/src/bin/duapi/handler.rs, query.rs).  A response is the status, *)
(* the query made on the index or on the directory (None where none was    *)
(* made) and the list of folders returned.                                 *)
(***************************************************************************)
\* parse_users_csv
parse_users_csv(s) ==
    LET pieces == split_on(s, COMMA, <<>>)
    IN  SelectSeq([i \in 1..Len(pieces) |-> trim(pieces[i])], LAMBDA p : p # <<>>)

\* "match q.users.as_deref() { Some(s) if !s.trim().is_empty() => ..., _ => Vec::new() }"
requested_users(q) ==
    IF q.users # None /\ trim(q.users[1]) # <<>> THEN parse_users_csv(q.users[1]) ELSE <<>>

\* every caller let through
forbidden_never(claims, requested) == FALSE

\* "if !claims.is_admin { if requested.is_empty() || requested.len() != 1
\*  || requested[0] != claims.sub"
forbidden(claims, requested) ==
    /\ ~claims.is_admin
    /\ requested = <<>> \/ Len(requested) # 1 \/ requested[1] # claims.sub

Response(status, query, body) == [status |-> status, query |-> query, body |-> body]

\* get_folders_handler
get_folders_handler(ix, claims, q) ==
    LET p0 == unwrap_or(q.path, <<SLASH>>)
        p1 == IF p0 = <<>> THEN <<SLASH>> ELSE p0
        path == IF p1[1] # SLASH THEN <<SLASH>> \o p1 ELSE p1
        requested == requested_users(q)
        items == list_children(ix, path, requested, q.age)
    IN  IF forbidden(claims, requested) THEN Response(403, None, <<>>)
        ELSE Response(200, Some([path |-> path, users |-> requested, age |-> q.age]),
                      IF items.ok THEN items.val ELSE <<>>)

\* get_files_handler; status is the answer once get_items has listed the
\* directory (200; 400 when it fails, 501 in a build that is not for unix;
\* 500 when the task is lost)
get_files_handler(claims, q, status) ==
    IF q.path = None \/ q.path[1] = <<>> THEN Response(400, None, <<>>)
    ELSE IF forbidden(claims, requested_users(q)) THEN Response(403, None, <<>>)
    ELSE Response(status, Some([path |-> q.path[1], users |-> requested_users(q),
                                age |-> q.age]), <<>>)

(***************************************************************************)
(* Runs of the API server: the rollup is loaded, then one query is made on *)
(* the index or one request is answered; and calls of canonical_key.       *)
(***************************************************************************)
\* the longest rollup of the enumerated ones
MaxRollup == 2

Alice == Bytes("alice")
Bob == Bytes("bob")

\* a row of the rollup: path, user, age, then files, size, disk, linked,
\* accessed, modified
Rollup(path, user, age, n) ==
    <<path, user, age, push_u64(n), push_u64(10 * n), push_u64(512 * n), push_u64(0),
      push_i64(n), push_i64(0 - n)>>

\* rows of "/", "/a", "/a/b" and "/c" of two owners and three buckets; a row whose
\* path has two slashes in a row, one whose name has a blank in front and
\* whose age is no number, and a row of two fields
RollupSamples ==
    {Rollup(<<SLASH>>, Alice, push_u64(0), 3),
     Rollup(<<SLASH>> \o Bytes("a"), Alice, push_u64(0), 2),
     Rollup(<<SLASH>> \o Bytes("a"), Bob, push_u64(2), 1),
     Rollup(P("a", "b"), Bob, push_u64(1), 1),
     Rollup(<<SLASH>> \o Bytes("c"), Alice, push_u64(2), 4),
     Rollup(<<SLASH>> \o Bytes("a") \o <<SLASH, SLASH>> \o Bytes("b"), Alice, push_u64(0), 1),
     Rollup(P("a", "b"), <<SPACE>> \o Alice, Bytes("x"), 5),
     <<P("a", "b"), Bob>>}

DirSamples ==
    {<<>>, <<SLASH>>, <<SLASH>> \o Bytes("a"), <<SLASH, SLASH>> \o Bytes("a"),
     Bytes("a") \o <<BACKSLASH>>, <<SLASH>> \o Bytes("c"), <<SLASH>> \o Bytes("z")}

Query(path, users, age) == [path |-> path, users |-> users, age |-> age]

Claims(sub, is_admin) == [sub |-> sub, is_admin |-> is_admin]

InitApi ==
    /\ ScanIdle
    /\ res = <<>>
    /\ \/ /\ op = "list_children"
          /\ \E records \in SeqsUpTo(RollupSamples, MaxRollup), dir \in DirSamples,
                filter \in {<<>>, <<Alice>>, <<Bob, Bytes("carol")>>},
                age \in {None, Some(0), Some(2)} :
                arg = [records |-> records, dir_path |-> dir, user_filter |-> filter,
                       age_filter |-> age]
       \/ /\ op \in {"get_folders_handler", "get_files_handler"}
          /\ \E records \in SeqsUpTo(RollupSamples, 1)
                              \cup {<<Rollup(<<SLASH>> \o Bytes("a"), Alice, push_u64(0), 2),
                                      Rollup(<<SLASH>> \o Bytes("a"), Bob, push_u64(2), 1),
                                      Rollup(P("a", "b"), Bob, push_u64(1), 1)>>},
                is_admin \in BOOLEAN,
                path \in {None, Some(<<>>), Some(<<SLASH>>), Some(Bytes("a"))},
                users \in {None, Some(<<SPACE>>), Some(Alice), Some(Bob),
                           Some(<<SPACE>> \o Alice \o <<SPACE, COMMA>>),
                           Some(Alice \o <<COMMA>> \o Alice),
                           Some(Alice \o <<COMMA>> \o Bob), Some(Bytes("Alice"))},
                age \in {None, Some(0)} :
                arg = [records |-> records, claims |-> Claims(Alice, is_admin),
                       q |-> Query(path, users, age)]
       \/ /\ op = "canonical_key"
          /\ arg \in AncestorPaths

\* main: the index is built from the rollup before the server listens
LoadFromCsv ==
    /\ op \in {"list_children", "get_folders_handler", "get_files_handler"}
    /\ res = <<>>
    /\ res' = <<load_from_csv(IndexNew, arg.records)>>
    /\ UNCHANGED <<op, arg, scanvars>>

ListChildren ==
    /\ op = "list_children"
    /\ Len(res) = 1
    /\ res' = Append(res, list_children(res[1], arg.dir_path, arg.user_filter,
                                        arg.age_filter))
    /\ UNCHANGED <<op, arg, scanvars>>

GetFolders ==
    /\ op = "get_folders_handler"
    /\ Len(res) = 1
    /\ res' = Append(res, get_folders_handler(res[1], arg.claims, arg.q))
    /\ UNCHANGED <<op, arg, scanvars>>

GetFiles ==
    /\ op = "get_files_handler"
    /\ Len(res) = 1
    /\ \E status \in {200, 400, 500, 501} :
          res' = Append(res, get_files_handler(arg.claims, arg.q, status))
    /\ UNCHANGED <<op, arg, scanvars>>

CanonicalKey ==
    /\ op = "canonical_key"
    /\ res = <<>>
    /\ res' = <<canonical_key(arg)>>
    /\ UNCHANGED <<op, arg, scanvars>>

SpecApi ==
    InitApi /\ [][LoadFromCsv \/ ListChildren \/ GetFolders \/ GetFiles \/ CanonicalKey]_vars

(***************************************************************************)
(* Folder keys                                                             *)
(***************************************************************************)
\* the rows of the rollup that load_from_csv keeps
Loaded(records) ==
    {records[i] : i \in {j \in 1..Len(records) :
                            /\ Len(records[j]) >= 9
                            /\ records[j][1] # <<>>
                            /\ trim(records[j][2]) # <<>>}}

\* the path of the folder of the components c, one slash before each
RECURSIVE JoinPath(_)
JoinPath(c) == IF c = <<>> THEN <<>> ELSE <<SLASH>> \o Head(c) \o JoinPath(Tail(c))

\* the key list_children computes for the folder of the path p when its
\* parent is listed by its path
ListedKey(p) ==
    LET c == path_to_components(p)
        parent == IF Len(c) = 1 THEN <<SLASH>> ELSE JoinPath(SubSeq(c, 1, Len(c) - 1))
    IN  canonical_key(full_path(normalize_path(parent), c[Len(c)]))

\* C26: for every path, canonical_key gives a string without backslash,
\* with exactly one slash in front, with no slash at the end unless it is
\* "/", and left unchanged by canonical_key; and the key stored for the path
\* of a row of the rollup is the key list_children computes for that folder.
C26_CanonicalKey ==
    /\ (op = "canonical_key" /\ res # <<>>) =>
          LET k == res[1]
          IN  /\ \A i \in 1..Len(k) : k[i] # BACKSLASH
              /\ k # <<>> /\ k[1] = SLASH
              /\ Len(k) > 1 => k[2] # SLASH
              /\ k[Len(k)] = SLASH => k = <<SLASH>>
              /\ canonical_key(k) = k
    /\ (op = "list_children" /\ res # <<>>) =>
          \A r \in Loaded(arg.records) :
             path_to_components(r[1]) # <<>> =>
                /\ canonical_key(r[1]) \in DOMAIN res[1].users_by_path
                /\ ListedKey(r[1]) = canonical_key(r[1])

\* the folder "/a/b" is loaded with an owner, and the request for the
\* children of "//a", with no filter, is answered by the empty list
C26_Witness ==
    /\ op = "list_children" /\ Len(res) = 2
    /\ arg.dir_path = <<SLASH, SLASH>> \o Bytes("a")
    /\ arg.user_filter = <<>> /\ arg.age_filter = None
    /\ P("a", "b") \in DOMAIN res[1].users_by_path
    /\ <<P("a", "b"), Bob, 1>> \in DOMAIN res[1].per_user_age
    /\ list_children(res[1], <<SLASH>> \o Bytes("a"), <<>>, None).val # <<>>
    /\ res[2] = Ok(<<>>)

(***************************************************************************)
(* The answers of list_children                                            *)
(***************************************************************************)
\* the answer of the call of list_children, once made and found
Listed == IF op = "list_children" /\ Len(res) = 2 /\ res[2].ok THEN res[2].val ELSE <<>>

\* C23: every folder list_children returns has an owner, every owner of it
\* has a bucket, the folder is a direct child of the listed directory, and
\* the list is in ascending order of the paths.
C23_ListedFolders ==
    /\ \A i \in 1..Len(Listed) :
          /\ DOMAIN Listed[i].users # {}
          /\ \A u \in DOMAIN Listed[i].users : DOMAIN Listed[i].users[u] # {}
          /\ LET c == path_to_components(Listed[i].path)
             IN  /\ Len(c) = Len(path_to_components(arg.dir_path)) + 1
                 /\ SubSeq(c, 1, Len(c) - 1) = path_to_components(arg.dir_path)
                 /\ c \in DOMAIN res[1].root
    /\ \A i, j \in 1..Len(Listed) : i < j => lex_less(Listed[i].path, Listed[j].path)

\* "/" is listed with two children in the answer, after a rollup whose
\* second folder was loaded first
C23_Witness ==
    /\ op = "list_children" /\ arg.dir_path = <<SLASH>>
    /\ Len(arg.records) = 2 /\ arg.records[1][1] = <<SLASH>> \o Bytes("c")
    /\ Len(Listed) = 2
    /\ Listed[1].path = <<SLASH>> \o Bytes("a")
    /\ Listed[2].path = <<SLASH>> \o Bytes("c")

\* the names of a user filter
FilterNames(user_filter) == {user_filter[i] : i \in 1..Len(user_filter)}

\* the statistics the index holds for a folder key, an owner and a bucket,
\* as list_children shows them
Shown(ix, pkey, uname, a) ==
    LET st == ix.per_user_age[<<pkey, uname, a>>]
    IN  [count |-> st.file_count, size |-> st.file_size, disk |-> st.disk_bytes,
         linked |-> st.linked_size, atime |-> st.latest_atime, mtime |-> st.latest_mtime]

\* the paths list_children gives to the children of the listed directory
ChildPaths ==
    LET components == path_to_components(arg.dir_path)
    IN  {full_path(normalize_path(arg.dir_path), c[Len(c)]) :
            c \in {d \in DOMAIN res[1].root :
                      /\ Len(d) = Len(components) + 1
                      /\ SubSeq(d, 1, Len(components)) = components}}

\* C24: with a user filter that is not empty, every owner of every returned
\* folder is in the filter, a child of the directory is returned exactly
\* when an owner of the filter has statistics for its key in a considered
\* bucket, and the statistics shown are the stored ones of that key, owner
\* and bucket, all of them; with an age filter the only bucket shown is the
\* filter's.
C24_OwnerFilter ==
    (op = "list_children" /\ Len(res) = 2 /\ res[2].ok) =>
       LET ix == res[1]
           ages == IF arg.age_filter # None THEN {arg.age_filter[1]} ELSE {0, 1, 2}
       IN  /\ arg.user_filter # <<>> =>
                /\ \A i \in 1..Len(Listed) :
                      DOMAIN Listed[i].users \subseteq FilterNames(arg.user_filter)
                /\ \A p \in ChildPaths :
                      (\E i \in 1..Len(Listed) : Listed[i].path = p)
                         <=> \E u \in FilterNames(arg.user_filter), a \in ages :
                                <<canonical_key(p), u, a>> \in DOMAIN ix.per_user_age
           /\ \A i \in 1..Len(Listed) : \A u \in DOMAIN Listed[i].users :
                 /\ \A a \in ages :
                       IF <<canonical_key(Listed[i].path), u, a>> \in DOMAIN ix.per_user_age
                       THEN /\ ToString(a) \in DOMAIN Listed[i].users[u]
                            /\ Listed[i].users[u][ToString(a)]
                                  = Shown(ix, canonical_key(Listed[i].path), u, a)
                       ELSE ToString(a) \notin DOMAIN Listed[i].users[u]
                 /\ DOMAIN Listed[i].users[u] \subseteq {ToString(a) : a \in ages}
                 /\ arg.age_filter # None =>
                       DOMAIN Listed[i].users[u] = {ToString(arg.age_filter[1])}

\* "/a" has statistics of alice and of bob, and the listing of "/" for
\* alice returns "/a" with alice alone
C24_Witness ==
    /\ op = "list_children" /\ Len(res) = 2 /\ res[2].ok
    /\ arg.dir_path = <<SLASH>> /\ arg.user_filter = <<Alice>>
    /\ <<SLASH>> \o Bytes("a") \in DOMAIN res[1].users_by_path
    /\ res[1].users_by_path[<<SLASH>> \o Bytes("a")] = {Alice, Bob}
    /\ Len(Listed) = 1
    /\ Listed[1].path = <<SLASH>> \o Bytes("a")
    /\ DOMAIN Listed[1].users = {Alice}

(***************************************************************************)
(* Authorization of the two endpoints                                      *)
(***************************************************************************)
\* a request has been answered
Answered == op \in {"get_folders_handler", "get_files_handler"} /\ Len(res) = 2

\* the users parameter parses to the caller's name and nothing else
OwnName == arg.q.users # None /\ parse_users_csv(arg.q.users[1]) = <<arg.claims.sub>>

\* the file endpoint is asked without a path
NoPath == op = "get_files_handler" /\ (arg.q.path = None \/ arg.q.path[1] = <<>>)

\* C25 as stated: a caller who is no admin gets 403, and no query of the
\* index and no listing is made, unless the users parameter parses to the
\* caller's own name alone; an admin never gets 403.
C25_Forbidden ==
    Answered =>
       /\ (~arg.claims.is_admin /\ ~OwnName) =>
             res[2].status = 403 /\ res[2].query = None
       /\ arg.claims.is_admin => res[2].status # 403

\* C25, amended: for a caller who is no admin and whose users parameter does
\* not parse to the caller's own name alone, no query of the index and no
\* listing is made, and the answer is 403, except on the file endpoint
\* asked without a path, where it is 400; no other caller gets 403, and
\* the query is made for them whenever the path is there.
C25_Authorization ==
    Answered =>
       /\ (~arg.claims.is_admin /\ ~OwnName) =>
             /\ res[2].query = None
             /\ res[2].status = IF NoPath THEN 400 ELSE 403
       /\ (arg.claims.is_admin \/ OwnName) =>
             /\ res[2].status # 403
             /\ ~NoPath => res[2].query # None

\* a caller who is no admin asks the file endpoint for the files of bob
\* without a path: the answer is 400 and nothing is listed
C25_Witness ==
    /\ Answered /\ NoPath
    /\ ~arg.claims.is_admin
    /\ arg.q.users = Some(Bob)
    /\ res[2].status = 400 /\ res[2].query = None

====
